---- MODULE Spec2Model ----
(***************************************************************************)
(* Model of the entity simulation core of the game (src/entities.py):      *)
(* Stats, StatusEffect and the abstract Entity (the spec's StatBlock,      *)
(* StatusEffect and Actor).                                                *)
(*                                                                         *)
(* Numbers.  Python floats are modelled as exact rationals <<n, d>> with   *)
(* d > 0 and gcd(n, d) = 1, so equality of values is equality of pairs.    *)
(* Time.  time.time() and the game_time handed to update() are one clock,  *)
(* the variable now, counted in whole seconds.                             *)
(***************************************************************************)
EXTENDS Integers, Sequences, FiniteSets, TLC

VARIABLES
    actors,     \* actor id -> the Entity object's fields
    now,        \* the clock read by time.time() and passed to update()
    nextUid,    \* identity of the next StatusEffect object created
    steps,      \* number of calls made so far
    last,       \* the last call: operation, arguments, results, state before
    sb,         \* a free-standing Stats object (Stats.modify_stat on its own)
    sbLast,     \* the last call made on sb
    calc,       \* a function evaluated on its own: its inputs and results
    combat,     \* combat.py and game.py: the session, the engine's registry
    cLast,      \* the last call made on them, with the state before it
    quest_manager   \* quests.py: the QuestManager, its quests, the player's gold

vars == <<actors, now, nextUid, steps, last, sb, sbLast, calc, combat, cLast,
          quest_manager>>

----------------------------------------------------------------------------
(* Bounds of the model *)
MaxSteps == 3       \* calls on actors per behaviour
MaxTime == 2        \* the clock runs 0..MaxTime
MaxEffects == 2     \* add_status_effect is called on lists shorter than this
MaxStatSteps == 3   \* modify_stat calls on the free-standing Stats object

----------------------------------------------------------------------------
(* Exact rational arithmetic standing for Python's float arithmetic *)

Abs(n) == IF n < 0 THEN -n ELSE n

RECURSIVE GCD(_, _)
GCD(a, b) == IF b = 0 THEN a ELSE GCD(b, a % b)

Norm(n, d) ==
    LET s == IF d < 0 THEN -1 ELSE 1
        g == GCD(Abs(n), Abs(d))
    IN  <<(s * n) \div g, (s * d) \div g>>

R(n) == <<n, 1>>
Q(n, d) == Norm(n, d)
RAdd(a, b) == Norm(a[1] * b[2] + b[1] * a[2], a[2] * b[2])
RNeg(a) == <<-a[1], a[2]>>
RSub(a, b) == RAdd(a, RNeg(b))
RMul(a, b) == Norm(a[1] * b[1], a[2] * b[2])
RDiv(a, b) == Norm(a[1] * b[2], a[2] * b[1])
RLt(a, b) == a[1] * b[2] < b[1] * a[2]
RLe(a, b) == a[1] * b[2] <= b[1] * a[2]
RMin(a, b) == IF RLe(a, b) THEN a ELSE b
RMax(a, b) == IF RLe(b, a) THEN a ELSE b

\* floor of n/d for d > 0 (TLA+'s \div rounds toward minus infinity)
Floor(a) == a[1] \div a[2]

\* round(x, 1): to one decimal, exact ties to the even digit
HalfEven(t, f) ==
    IF 2 * (t[1] - f * t[2]) < t[2] THEN f
    ELSE IF 2 * (t[1] - f * t[2]) > t[2] THEN f + 1
    ELSE IF f % 2 = 0 THEN f ELSE f + 1

Tenths(t) == Norm(HalfEven(t, Floor(t)), 10)

Round1(a) == Tenths(RMul(a, R(10)))

----------------------------------------------------------------------------
(* Stats *)

StatNames == {"health", "max_health", "stamina", "max_stamina", "mana",
              "max_mana", "strength", "defense", "agility", "intelligence",
              "critical_chance", "dodge_chance"}

\* the dataclass defaults
DefaultStats ==
    [s \in StatNames |->
        CASE s \in {"health", "max_health", "stamina", "max_stamina"} -> R(100)
          [] s \in {"mana", "max_mana"} -> R(0)
          [] s \in {"strength", "agility", "intelligence"} -> R(10)
          [] s = "defense" -> R(5)
          [] OTHER -> Q(1, 20)]

\* stat_name.startswith('max_')
StartsWithMax(stat_name) == stat_name \in {"max_health", "max_stamina", "max_mana"}

\* f"max_{stat_name}"
MaxName(stat_name) ==
    CASE stat_name = "health" -> "max_health"
      [] stat_name = "stamina" -> "max_stamina"
      [] stat_name = "mana" -> "max_mana"
      [] OTHER -> "none"

modify_stat(stats, stat_name, value, is_percentage) ==
    IF stat_name \notin DOMAIN stats THEN stats
    ELSE LET current_value == stats[stat_name]
             new_value == IF is_percentage
                          THEN RMul(current_value, RAdd(R(1), value))
                          ELSE RAdd(current_value, value)
             clamped == IF StartsWithMax(stat_name)
                        THEN RMax(R(1), new_value)
                        ELSE IF MaxName(stat_name) \in DOMAIN stats
                             THEN RMin(RMax(R(0), new_value), stats[MaxName(stat_name)])
                             ELSE RMax(R(0), new_value)
         IN  [stats EXCEPT ![stat_name] = clamped]

----------------------------------------------------------------------------
(* StatusEffect *)

\* stat_modifiers is a dict: a sequence of <<key, value>> in insertion order
RECURSIVE SumValues(_)
SumValues(mods) ==
    IF mods = << >> THEN R(0) ELSE RAdd(mods[1][2], SumValues(Tail(mods)))

HasKey(mods, key) == \E i \in 1..Len(mods) : mods[i][1] = key
Lookup(mods, key) == mods[CHOOSE i \in 1..Len(mods) : mods[i][1] = key][2]

RECURSIVE EffectApply(_, _)
EffectApply(mods, stats) ==
    IF mods = << >> THEN stats
    ELSE EffectApply(Tail(mods), modify_stat(stats, mods[1][1], mods[1][2], TRUE))

RECURSIVE EffectRemove(_, _)
EffectRemove(mods, stats) ==
    IF mods = << >> THEN stats
    ELSE EffectRemove(Tail(mods), modify_stat(stats, mods[1][1], RNeg(mods[1][2]), TRUE))

----------------------------------------------------------------------------
(* Entity: construction data *)

ActorIds == {"hero", "rat"}
None == "none"

Other(id) == IF id = "hero" THEN "rat" ELSE "hero"

\* dict[key] = value
SetAttr(f, k, v) == [x \in (DOMAIN f) \cup {k} |-> IF x = k THEN v ELSE f[x]]

EmptyDict == [x \in {} |-> 0]

\* CombatStats.__init__
NewCombatStats ==
    [damage_dealt |-> R(0), damage_taken |-> R(0), healing_done |-> R(0),
     critical_hits |-> 0, dodges |-> 0, kills |-> 0, deaths |-> 0,
     highest_damage |-> R(0)]

\* the effect definitions handed to StatusEffect(...)
EffectData ==
    [Poison |-> [name |-> "Poison", type |-> "dot",
                 stat_modifiers |-> << <<"health", R(-5)>> >>,
                 duration |-> 3, tick_interval |-> 1,
                 is_permanent |-> FALSE, can_stack |-> FALSE],
     Venom |-> [name |-> "Poison", type |-> "dot",
                stat_modifiers |-> << <<"health", R(-2)>> >>,
                duration |-> 2, tick_interval |-> 1,
                is_permanent |-> FALSE, can_stack |-> FALSE],
     Bleed |-> [name |-> "Bleed", type |-> "dot",
                stat_modifiers |-> << <<"damage", R(40)>>,
                                      <<"damage_taken_modifier", Q(1, 2)>>,
                                      <<"healing_received_modifier", Q(-1, 2)>> >>,
                duration |-> 2, tick_interval |-> 1,
                is_permanent |-> FALSE, can_stack |-> TRUE],
     Fortify |-> [name |-> "Fortify", type |-> "buff",
                  stat_modifiers |-> << <<"max_health", Q(1, 2)>>, <<"defense", Q(1, 2)>> >>,
                  duration |-> 1, tick_interval |-> 1,
                  is_permanent |-> FALSE, can_stack |-> FALSE],
     Bulwark |-> [name |-> "Fortify", type |-> "buff",
                  stat_modifiers |-> << <<"defense", Q(3, 2)>> >>,
                  duration |-> 2, tick_interval |-> 1,
                  is_permanent |-> FALSE, can_stack |-> FALSE],
     Regrowth |-> [name |-> "Regrowth", type |-> "resource_regen",
                   stat_modifiers |-> << <<"health", R(10)>> >>,
                   duration |-> 2, tick_interval |-> 1,
                   is_permanent |-> FALSE, can_stack |-> FALSE],
     Aura |-> [name |-> "Aura", type |-> "buff",
               stat_modifiers |-> << <<"dodge_chance", R(1)>>,
                                     <<"critical_chance", R(1)>>,
                                     <<"dodge_bonus", Q(1, 2)>>,
                                     <<"crit_chance_bonus", Q(1, 2)>> >>,
               duration |-> 0, tick_interval |-> 2,
               is_permanent |-> TRUE, can_stack |-> TRUE]]

EffectKinds == DOMAIN EffectData

\* StatusEffect(**effect_data): a new object; last_tick keeps its default 0.0
StatusEffect(kind, uid) ==
    [uid |-> uid, name |-> EffectData[kind].name, type |-> EffectData[kind].type,
     stat_modifiers |-> EffectData[kind].stat_modifiers,
     duration |-> EffectData[kind].duration,
     tick_interval |-> EffectData[kind].tick_interval, last_tick |-> 0,
     is_permanent |-> EffectData[kind].is_permanent,
     can_stack |-> EffectData[kind].can_stack]

\* the ability table _load_abilities builds; has_cost FALSE is a definition
\* without 'cost', which the loader stores as the integer 0 instead of a dict
Abilities ==
    [strike |-> [name |-> "strike", damage |-> R(10), cooldown |-> 2,
                 has_cost |-> TRUE, cost |-> [stamina |-> R(60), mana |-> R(0)],
                 effects |-> <<"Bleed">>,
                 req_level |-> 0, req_stats |-> << >>, range |-> R(1)],
     curse |-> [name |-> "curse", damage |-> R(0), cooldown |-> 1,
                has_cost |-> TRUE, cost |-> [stamina |-> R(0), mana |-> R(10)], effects |-> <<"Bleed">>,
                req_level |-> 0, req_stats |-> << >>, range |-> R(1)],
     smite |-> [name |-> "smite", damage |-> R(50), cooldown |-> 1,
                has_cost |-> TRUE, cost |-> [stamina |-> R(10), mana |-> R(0)], effects |-> << >>,
                req_level |-> 1, req_stats |-> << <<"strength", R(12)>> >>,
                range |-> R(1)],
     poke |-> [name |-> "poke", damage |-> R(5), cooldown |-> 1,
               has_cost |-> TRUE, cost |-> [stamina |-> R(10), mana |-> R(0)], effects |-> << >>,
               req_level |-> 0, req_stats |-> << >>, range |-> Q(1, 2)],
     shout |-> [name |-> "shout", damage |-> R(0), cooldown |-> 0,
                has_cost |-> FALSE, cost |-> [stamina |-> R(0), mana |-> R(0)], effects |-> << >>,
                req_level |-> 0, req_stats |-> << >>, range |-> R(1)]]

AbilityIds == DOMAIN Abilities
AbilityInputs == AbilityIds \cup {"unknown"}

\* Entity.__init__; applied, reverted and used_at are history: how often
\* each effect object was applied and reverted, and when each ability was
\* last used with success
NewEntity(id, level, stats, x) ==
    [id |-> id, level |-> level, stats |-> stats, position |-> <<x, 0, 0>>,
     status_effects |-> << >>, is_alive |-> TRUE,
     in_combat |-> FALSE,
     combat_stats |-> NewCombatStats, cooldowns |-> EmptyDict,
     applied |-> EmptyDict, reverted |-> EmptyDict, used_at |-> EmptyDict]

HeroStats == [DefaultStats EXCEPT !["mana"] = R(10), !["max_mana"] = R(20)]
RatStats == [DefaultStats EXCEPT !["health"] = R(30), !["max_health"] = R(30),
                                 !["stamina"] = R(20)]

\* self.resistances = data.get('resistances', {})
Resistance(a, damage_type) == R(0)

----------------------------------------------------------------------------
(* Entity: statistics, damage, healing, death *)

Bump(f, k) == SetAttr(f, k, IF k \in DOMAIN f THEN f[k] + 1 ELSE 1)
Count(f, k) == IF k \in DOMAIN f THEN f[k] ELSE 0

\* effect.apply(self) / effect.remove(self); applied and reverted count the
\* calls made for each StatusEffect object
ApplyTo(a, effect) ==
    [a EXCEPT !.stats = EffectApply(effect.stat_modifiers, @),
              !.applied = Bump(@, effect.uid)]

RemoveFrom(a, effect) ==
    [a EXCEPT !.stats = EffectRemove(effect.stat_modifiers, @),
              !.reverted = Bump(@, effect.uid)]

\* dataclass equality: every field of the StatusEffect, not the object identity
SameValue(e1, e2) == [e1 EXCEPT !.uid = 0] = [e2 EXCEPT !.uid = 0]

\* list.remove(x): drops the first element equal to x; 0 when there is none
IndexOfValue(list, e) ==
    IF \E i \in 1..Len(list) : SameValue(list[i], e)
    THEN CHOOSE i \in 1..Len(list) :
            SameValue(list[i], e) /\ \A j \in 1..(i - 1) : ~SameValue(list[j], e)
    ELSE 0

DropAt(list, i) == [j \in 1..(Len(list) - 1) |-> IF j < i THEN list[j] ELSE list[j + 1]]

\* list.remove(x) with the ValueError of a missing x swallowed
RemoveValue(list, e) ==
    IF IndexOfValue(list, e) = 0 THEN list ELSE DropAt(list, IndexOfValue(list, e))

\* the modifiers of one effect folded into a copy of the stats, as in
\* current_stats: getattr(modified_stats, stat, 0) * (1 + modifier)
RECURSIVE FoldModifiers(_, _)
FoldModifiers(mods, ms) ==
    IF mods = << >> THEN ms
    ELSE LET stat == mods[1][1]
             current_value == IF stat \in DOMAIN ms THEN ms[stat] ELSE R(0)
         IN  FoldModifiers(Tail(mods),
                 SetAttr(ms, stat, RMul(current_value, RAdd(R(1), mods[1][2]))))

RECURSIVE FoldEffects(_, _)
FoldEffects(effects, ms) ==
    IF effects = << >> THEN ms
    ELSE FoldEffects(Tail(effects), FoldModifiers(effects[1].stat_modifiers, ms))

\* self.inventory is None after construction: no equipment modifiers
current_stats(a) == FoldEffects(a.status_effects, a.stats)

\* sum of effect.stat_modifiers[key] over the active effects that have key
RECURSIVE SumOfKey(_, _)
SumOfKey(effects, key) ==
    IF effects = << >> THEN R(0)
    ELSE RAdd(IF HasKey(effects[1].stat_modifiers, key)
              THEN Lookup(effects[1].stat_modifiers, key) ELSE R(0),
              SumOfKey(Tail(effects), key))

\* product of (1 + effect.stat_modifiers[key]) over the effects that have key
RECURSIVE ProductOfKey(_, _)
ProductOfKey(effects, key) ==
    IF effects = << >> THEN R(1)
    ELSE RMul(IF HasKey(effects[1].stat_modifiers, key)
              THEN RAdd(R(1), Lookup(effects[1].stat_modifiers, key)) ELSE R(1),
              ProductOfKey(Tail(effects), key))

\* random.random() draws the model lets the calls make
Rolls == {R(0), Q(3, 4)}

try_dodge(a, roll) ==
    LET dodge_chance == RAdd(current_stats(a)["dodge_chance"],
                             SumOfKey(a.status_effects, "dodge_bonus"))
    IN  RLt(roll, RMin(Q(3, 4), dodge_chance))

\* a _calculate_damage in which the defense term raises the damage
calculate_damage_defense_adds(a, base_damage, damage_type) ==
    LET damage0 == RMul(base_damage, RSub(R(1), Resistance(a, damage_type)))
        damage1 == RMul(damage0, ProductOfKey(a.status_effects, "damage_taken_modifier"))
        defense == current_stats(a)["defense"]
        defense_reduction == RDiv(defense, RAdd(defense, R(100)))
        damage2 == RMul(damage1, RAdd(R(1), defense_reduction))
    IN  Round1(RMax(R(0), damage2))

calculate_damage(a, base_damage, damage_type) ==
    LET damage0 == RMul(base_damage, RSub(R(1), Resistance(a, damage_type)))
        damage1 == RMul(damage0, ProductOfKey(a.status_effects, "damage_taken_modifier"))
        defense == current_stats(a)["defense"]
        defense_reduction == RDiv(defense, RAdd(defense, R(100)))
        damage2 == RMul(damage1, RSub(R(1), defense_reduction))
    IN  Round1(RMax(R(0), damage2))

\* effect.remove(self) runs before list.remove can raise the ValueError
remove_effect(a, effect) ==
    [RemoveFrom(a, effect) EXCEPT !.status_effects = RemoveValue(@, effect)]

\* for effect in list(self.status_effects)
RECURSIVE DieLoop(_, _)
DieLoop(a, copy) ==
    IF copy = << >> THEN a
    ELSE DieLoop(IF ~copy[1].is_permanent THEN remove_effect(a, copy[1]) ELSE a,
                 Tail(copy))

\* a die that does not look at is_alive first
die_every_time(a) ==
    DieLoop([a EXCEPT !.is_alive = FALSE,
                      !.stats["health"] = R(0),
                      !.combat_stats.deaths = @ + 1],
            a.status_effects)

die(a) ==
    IF ~a.is_alive THEN a
    ELSE DieLoop([a EXCEPT !.is_alive = FALSE,
                           !.stats["health"] = R(0),
                           !.combat_stats.deaths = @ + 1],
                 a.status_effects)

\* if self.stats.health <= 0: self.die()
DieAtZero(a) == IF RLe(a.stats["health"], R(0)) THEN die(a) ELSE a

\* the part of take_damage after the dodge: the damage is taken off the health
LoseHealth(a, actual_damage) ==
    [actor |-> DieAtZero(
                  [a EXCEPT !.stats["health"] = RMax(R(0), RSub(@, actual_damage)),
                            !.combat_stats.damage_taken = RAdd(@, actual_damage)]),
     amount |-> actual_damage, dodged |-> FALSE]

\* returns the actor and (actual_damage, was_dodged)
take_damage(a, damage, damage_type, roll) ==
    IF ~a.is_alive THEN [actor |-> a, amount |-> R(0), dodged |-> FALSE]
    ELSE IF try_dodge(a, roll)
    THEN [actor |-> [a EXCEPT !.combat_stats.dodges = @ + 1],
          amount |-> R(0), dodged |-> TRUE]
    ELSE LoseHealth(a, calculate_damage(a, damage, damage_type))

\* a heal that leaves the effects' healing_received_modifier out
heal_unmodified(a, amount) ==
    IF ~a.is_alive THEN [actor |-> a, amount |-> R(0)]
    ELSE LET actual_healing == amount
             old_health == a.stats["health"]
             new_health == RMin(a.stats["max_health"], RAdd(old_health, actual_healing))
             healing_done == RSub(new_health, old_health)
         IN  [actor |-> [a EXCEPT !.stats["health"] = new_health,
                                  !.combat_stats.healing_done = RAdd(@, healing_done)],
              amount |-> healing_done]

heal(a, amount) ==
    IF ~a.is_alive THEN [actor |-> a, amount |-> R(0)]
    ELSE LET healing_modifier == ProductOfKey(a.status_effects, "healing_received_modifier")
             actual_healing == RMul(amount, healing_modifier)
             old_health == a.stats["health"]
             new_health == RMin(a.stats["max_health"], RAdd(old_health, actual_healing))
             healing_done == RSub(new_health, old_health)
         IN  [actor |-> [a EXCEPT !.stats["health"] = new_health,
                                  !.combat_stats.healing_done = RAdd(@, healing_done)],
              amount |-> healing_done]

\* a resurrect that also drops the effects the death left on the actor
resurrect_without_effects(a, health_percentage) ==
    IF a.is_alive THEN a
    ELSE [a EXCEPT !.is_alive = TRUE,
                   !.status_effects = << >>,
                   !.stats["health"] = RMul(a.stats["max_health"], health_percentage),
                   !.stats["stamina"] = RMul(a.stats["max_stamina"], Q(1, 2)),
                   !.stats["mana"] = RMul(a.stats["max_mana"], Q(1, 2))]

resurrect(a, health_percentage) ==
    IF a.is_alive THEN a
    ELSE [a EXCEPT !.is_alive = TRUE,
                   !.stats["health"] = RMul(a.stats["max_health"], health_percentage),
                   !.stats["stamina"] = RMul(a.stats["max_stamina"], Q(1, 2)),
                   !.stats["mana"] = RMul(a.stats["max_mana"], Q(1, 2))]

----------------------------------------------------------------------------
(* Entity: status effects and update *)

\* index of the first active effect named like effect, 0 when there is none
FirstNamed(list, name) ==
    IF \E i \in 1..Len(list) : list[i].name = name
    THEN CHOOSE i \in 1..Len(list) :
            list[i].name = name /\ \A j \in 1..(i - 1) : list[j].name # name
    ELSE 0

add_status_effect(a, effect) ==
    LET i == FirstNamed(a.status_effects, effect.name)
    IN  IF i # 0 /\ ~effect.can_stack
        THEN LET existing_effect == a.status_effects[i]
             IN  IF RLt(SumValues(existing_effect.stat_modifiers),
                        SumValues(effect.stat_modifiers))
                 THEN [ApplyTo([RemoveFrom(a, existing_effect)
                                   EXCEPT !.status_effects =
                                              RemoveValue(@, existing_effect)],
                               effect)
                          EXCEPT !.status_effects = Append(@, effect)]
                 ELSE [a EXCEPT !.status_effects[i].duration =
                           IF @ >= effect.duration THEN @ ELSE effect.duration]
        ELSE [ApplyTo(a, effect) EXCEPT !.status_effects = Append(@, effect)]

\* the resource_regen branch of _apply_effect_tick; every resource of the
\* modelled effects has a max_ counterpart
RECURSIVE RegenResources(_, _)
RegenResources(mods, stats) ==
    IF mods = << >> THEN stats
    ELSE LET resource == mods[1][1]
             new_stats ==
                 IF resource \in DOMAIN stats
                 THEN [stats EXCEPT ![resource] =
                          RMin(stats[MaxName(resource)], RAdd(@, mods[1][2]))]
                 ELSE stats
         IN  RegenResources(Tail(mods), new_stats)

apply_effect_tick(a, effect, roll) ==
    CASE effect.type = "dot" ->
            take_damage(a, SumValues(effect.stat_modifiers), "magical", roll).actor
      [] effect.type = "hot" ->
            heal(a, SumValues(effect.stat_modifiers)).actor
      [] effect.type = "resource_regen" ->
            [a EXCEPT !.stats = RegenResources(effect.stat_modifiers, @)]
      [] OTHER -> a

\* effect.last_tick = game_time: a write to the object, seen through the list
\* only while the object is still in it
SetLastTick(list, uid, game_time) ==
    [j \in 1..Len(list) |->
        IF list[j].uid = uid THEN [list[j] EXCEPT !.last_tick = game_time] ELSE list[j]]

\* for effect in self.status_effects: the list iterator reads the i-th element
\* of the list as it is at that moment, so a die() inside a tick, which
\* removes elements of the same list, ends or shifts the iteration
RECURSIVE UpdateEffectsLoop(_, _, _, _, _)
UpdateEffectsLoop(a, i, active_effects, game_time, rolls) ==
    IF i > Len(a.status_effects)
    THEN [a EXCEPT !.status_effects = active_effects]
    ELSE LET effect0 == a.status_effects[i]
         IN  IF effect0.is_permanent \/ effect0.duration > 0
             THEN LET effect1 == IF ~effect0.is_permanent
                                 THEN [effect0 EXCEPT !.duration = @ - 1]
                                 ELSE effect0
                      a1 == [a EXCEPT !.status_effects[i] = effect1]
                  IN  IF game_time - effect1.last_tick >= effect1.tick_interval
                      THEN LET a2 == apply_effect_tick(a1, effect1, rolls[i])
                               effect2 == [effect1 EXCEPT !.last_tick = game_time]
                               a3 == [a2 EXCEPT !.status_effects =
                                         SetLastTick(@, effect2.uid, game_time)]
                           IN  UpdateEffectsLoop(a3, i + 1, Append(active_effects, effect2),
                                                 game_time, rolls)
                      ELSE UpdateEffectsLoop(a1, i + 1, Append(active_effects, effect1),
                                             game_time, rolls)
             ELSE UpdateEffectsLoop(RemoveFrom(a, effect0), i + 1, active_effects,
                                    game_time, rolls)

update_status_effects(a, game_time, rolls) ==
    UpdateEffectsLoop(a, 1, << >>, game_time, rolls)

\* no modelled effect has a 'regeneration' entry and there is no inventory
get_regeneration_modifiers(a) == [health |-> R(1), stamina |-> R(1), mana |-> R(1)]

\* _update_resources, and before it one that adds the regeneration without
\* the min(...) against the maximum
update_resources_unbounded(a) ==
    LET regen_modifiers == get_regeneration_modifiers(a)
        s1 == IF RLt(a.stats["stamina"], a.stats["max_stamina"])
              THEN [a.stats EXCEPT !["stamina"] =
                       RAdd(@, RMul(R(5), regen_modifiers.stamina))]
              ELSE a.stats
        s2 == IF RLt(s1["mana"], s1["max_mana"])
              THEN [s1 EXCEPT !["mana"] =
                       RAdd(@, RMul(R(2), regen_modifiers.mana))]
              ELSE s1
    IN  [a EXCEPT !.stats = s2]

update_resources(a) ==
    LET regen_modifiers == get_regeneration_modifiers(a)
        s1 == IF RLt(a.stats["stamina"], a.stats["max_stamina"])
              THEN [a.stats EXCEPT !["stamina"] =
                       RMin(a.stats["max_stamina"],
                            RAdd(@, RMul(R(5), regen_modifiers.stamina)))]
              ELSE a.stats
        s2 == IF RLt(s1["mana"], s1["max_mana"])
              THEN [s1 EXCEPT !["mana"] =
                       RMin(s1["max_mana"], RAdd(@, RMul(R(2), regen_modifiers.mana)))]
              ELSE s1
    IN  [a EXCEPT !.stats = s2]

\* Entity.update up to the call of self._update_cooldowns, a method no class
\* of the Entity hierarchy defines: the call raises AttributeError there
\* if self.stats.health <= 0 and self.is_alive: self.die()
DeathCheck(a) == IF RLe(a.stats["health"], R(0)) /\ a.is_alive THEN die(a) ELSE a

update(a, game_time, rolls) ==
    DeathCheck(update_resources(update_status_effects(a, game_time, rolls)))

----------------------------------------------------------------------------
(* Entity: dealing damage and abilities *)

is_critical_hit(a, roll) ==
    LET crit_chance == RAdd(current_stats(a)["critical_chance"],
                            SumOfKey(a.status_effects, "crit_chance_bonus"))
    IN  RLt(roll, RMin(Q(3, 4), crit_chance))

\* no get_skill_level on an Entity: only the status-effect bonuses
get_critical_multiplier(a) == RAdd(R(2), SumOfKey(a.status_effects, "crit_damage_bonus"))

modify_outgoing_damage(a, damage, damage_type) ==
    LET stat_bonus == CASE damage_type = "physical" ->
                              RDiv(current_stats(a)["strength"], R(100))
                        [] damage_type = "magical" ->
                              RDiv(current_stats(a)["intelligence"], R(100))
                        [] OTHER -> R(0)
        damage_bonus == RAdd(RAdd(R(1), stat_bonus),
                             SumOfKey(a.status_effects, "damage_dealt_modifier"))
    IN  RMul(damage, damage_bonus)

update_damage_stats(cs, damage, is_critical) ==
    [cs EXCEPT !.damage_dealt = RAdd(@, damage),
               !.highest_damage = IF RLt(@, damage) THEN damage ELSE @,
               !.critical_hits = IF is_critical THEN @ + 1 ELSE @]

\* what target.take_damage returned is written to both actors:
\* self.combat_stats.update_damage_stats(actual_damage, is_critical)
BookDamage(A, self, target, hit, is_critical) ==
    [actors |-> [A EXCEPT ![target] = hit.actor,
                          ![self].combat_stats =
                              update_damage_stats(@, hit.amount, is_critical)],
     amount |-> hit.amount, dodged |-> hit.dodged, crit |-> is_critical]

\* deal_damage once both actors are known to be alive and the critical roll
\* is made
Attack(A, self, target, base_damage, damage_type, is_critical, dodge_roll) ==
    LET base1 == IF is_critical
                 THEN RMul(base_damage, get_critical_multiplier(A[self]))
                 ELSE base_damage
        A1 == IF is_critical
              THEN [A EXCEPT ![self].combat_stats.critical_hits = @ + 1]
              ELSE A
    IN  BookDamage(A1, self, target,
                   take_damage(A1[target],
                               modify_outgoing_damage(A1[self], base1, damage_type),
                               damage_type, dodge_roll),
                   is_critical)

\* A is the map of all actors; self and target are actor ids
deal_damage(A, self, target, base_damage, damage_type, crit_roll, dodge_roll) ==
    IF ~A[target].is_alive \/ ~A[self].is_alive
    THEN [actors |-> A, amount |-> R(0), dodged |-> FALSE, crit |-> FALSE]
    ELSE Attack(A, self, target, base_damage, damage_type,
                is_critical_hit(A[self], crit_roll), dodge_roll)

is_on_cooldown_inclusive(a, ability_id, t) ==
    ability_id \in DOMAIN a.cooldowns /\ a.cooldowns[ability_id] >= t

is_on_cooldown(a, ability_id, t) ==
    ability_id \in DOMAIN a.cooldowns /\ a.cooldowns[ability_id] > t

\* no get_cooldown_reduction on an Entity
set_ability_cooldown(a, ability_id, t) ==
    [a EXCEPT !.cooldowns = SetAttr(@, ability_id, t + Abilities[ability_id].cooldown)]

check_ability_requirements(a, ability) ==
    /\ ~(a.level < ability.req_level)
    /\ \A k \in 1..Len(ability.req_stats) :
          LET stat == ability.req_stats[k][1]
              cs == current_stats(a)
              have == IF stat \in DOMAIN cs THEN cs[stat] ELSE R(0)
          IN  ~RLt(have, ability.req_stats[k][2])

\* (can_use, message); raised is the exception that leaves the call instead
can_use_ability(a, ability_id, t) ==
    IF ability_id \notin DOMAIN Abilities
    THEN [ok |-> FALSE, reason |-> "unknown", raised |-> None]
    ELSE LET ability == Abilities[ability_id]
         IN  IF is_on_cooldown(a, ability_id, t)
             THEN [ok |-> FALSE, reason |-> "cooldown", raised |-> None]
             ELSE IF ~ability.has_cost
             THEN [ok |-> FALSE, reason |-> None, raised |-> "AttributeError"]
             ELSE IF RLt(a.stats["stamina"], ability.cost.stamina)
             THEN [ok |-> FALSE, reason |-> "stamina", raised |-> None]
             ELSE IF RLt(a.stats["mana"], ability.cost.mana)
             THEN [ok |-> FALSE, reason |-> "mana", raised |-> None]
             ELSE IF ~check_ability_requirements(a, ability)
             THEN [ok |-> FALSE, reason |-> "requirements", raised |-> None]
             ELSE [ok |-> TRUE, reason |-> "", raised |-> None]

is_in_ability_range(a, b, ability) ==
    LET d2 == (a.position[1] - b.position[1]) * (a.position[1] - b.position[1])
              + (a.position[2] - b.position[2]) * (a.position[2] - b.position[2])
              + (a.position[3] - b.position[3]) * (a.position[3] - b.position[3])
    IN  RLe(R(d2), RMul(ability.range, ability.range))

\* for effect_data in ability['effects']: attach to the target, or to self
RECURSIVE AttachEffects(_, _, _, _)
AttachEffects(A, receiver, kinds, uid) ==
    IF kinds = << >> THEN A
    ELSE AttachEffects(
            [A EXCEPT ![receiver] = add_status_effect(@, StatusEffect(kinds[1], uid))],
            receiver, Tail(kinds), uid + 1)

Result(A, ok, reason, effects, raised) ==
    [actors |-> A, ok |-> ok, reason |-> reason, effects |-> effects, raised |-> raised]

\* self.stats.stamina -= cost; self.stats.mana -= cost
PayCost(A, self, ability_id) ==
    [A EXCEPT ![self].stats["stamina"] = RSub(@, Abilities[ability_id].cost.stamina),
              ![self].stats["mana"] = RSub(@, Abilities[ability_id].cost.mana)]

\* use_ability once can_use_ability has accepted; effects in the result is the
\* length of the returned effects list
\* if target and ability['damage'] > 0
Direct(ability_id, target) == target # None /\ RLt(R(0), Abilities[ability_id].damage)

\* a use_ability that goes on to the status effects after a dodge
AfterDamage_ignore_dodge(hit, self, ability_id, target, t, uid) ==
    Result([AttachEffects(hit.actors, IF target # None THEN target ELSE self,
                          Abilities[ability_id].effects, uid)
               EXCEPT ![self] = set_ability_cooldown(@, ability_id, t)],
           ~hit.dodged, IF hit.dodged THEN "dodged" ELSE "",
           IF hit.dodged THEN 0
           ELSE (IF Direct(ability_id, target) THEN 1 ELSE 0)
                    + Len(Abilities[ability_id].effects),
           None)

\* use_ability after the basic damage: hit is what deal_damage returned
AfterDamage(hit, self, ability_id, target, t, uid) ==
    IF hit.dodged
    THEN Result(hit.actors, FALSE, "dodged", 0, None)
    ELSE Result([AttachEffects(hit.actors, IF target # None THEN target ELSE self,
                               Abilities[ability_id].effects, uid)
                    EXCEPT ![self] = set_ability_cooldown(@, ability_id, t)],
                TRUE, "",
                (IF Direct(ability_id, target) THEN 1 ELSE 0)
                    + Len(Abilities[ability_id].effects),
                None)

\* use_ability after the cost is paid
BasicDamage(A1, self, ability_id, target, t, uid, crit_roll, dodge_roll) ==
    AfterDamage(IF Direct(ability_id, target)
                THEN deal_damage(A1, self, target, Abilities[ability_id].damage,
                                 "physical", crit_roll, dodge_roll)
                ELSE [actors |-> A1, amount |-> R(0), dodged |-> FALSE, crit |-> FALSE],
                self, ability_id, target, t, uid)

\* a use_ability that deducts the cost and only then tests the range
UseValidated_pay_then_range(A, self, ability_id, target, t, uid, crit_roll, dodge_roll) ==
    IF target # None /\ ~is_in_ability_range(A[self], A[target], Abilities[ability_id])
    THEN Result(PayCost(A, self, ability_id), FALSE, "range", 0, None)
    ELSE BasicDamage(PayCost(A, self, ability_id), self, ability_id, target, t, uid,
                     crit_roll, dodge_roll)

UseValidated(A, self, ability_id, target, t, uid, crit_roll, dodge_roll) ==
    IF target # None /\ ~is_in_ability_range(A[self], A[target], Abilities[ability_id])
    THEN Result(A, FALSE, "range", 0, None)
    ELSE BasicDamage(PayCost(A, self, ability_id), self, ability_id, target, t, uid,
                     crit_roll, dodge_roll)

\* a use_ability that takes the cost before it validates
use_ability_pay_first(A, self, ability_id, target, t, uid, crit_roll, dodge_roll) ==
    LET check == can_use_ability(A[self], ability_id, t)
    IN  IF ~check.ok
        THEN Result(IF ability_id \in DOMAIN Abilities THEN PayCost(A, self, ability_id)
                    ELSE A,
                    FALSE, check.reason, 0, check.raised)
        ELSE UseValidated(A, self, ability_id, target, t, uid, crit_roll, dodge_roll)

use_ability(A, self, ability_id, target, t, uid, crit_roll, dodge_roll) ==
    LET check == can_use_ability(A[self], ability_id, t)
    IN  IF ~check.ok THEN Result(A, FALSE, check.reason, 0, check.raised)
        ELSE UseValidated(A, self, ability_id, target, t, uid, crit_roll, dodge_roll)

----------------------------------------------------------------------------
(* The calls the driving loop makes on the actors *)

DamageInputs == {R(10), R(50), R(200)}
HealInputs == {R(20)}
FractionInputs == {R(0), Q(1, 2)}
AttackInputs == {R(20)}

\* the draws a call can make: none are made (one fixed value stands for that)
\* when the call returns before it reaches random.random()
RollsIf(drawn) == IF drawn THEN Rolls ELSE {R(0)}

\* use_ability reaches deal_damage with both sides alive
Strikes(id, ability_id, target) ==
    /\ target # None
    /\ can_use_ability(actors[id], ability_id, now).ok
    /\ RLt(R(0), Abilities[ability_id].damage)
    /\ is_in_ability_range(actors[id], actors[target], Abilities[ability_id])
    /\ actors[id].is_alive /\ actors[target].is_alive

\* the record of a call: who was called with what, what came back, and the
\* actors as they were when the call was made; arg is the numeric argument
Call(op, self, target, ability, ok, reason, amount, dodged, crit, effects, raised) ==
    [op |-> op, self |-> self, target |-> target, ability |-> ability,
     ok |-> ok, reason |-> reason, amount |-> amount, dodged |-> dodged,
     crit |-> crit, effects |-> effects, raised |-> raised,
     arg |-> R(0), pre |-> actors]

NoCall ==
    [op |-> None, self |-> None, target |-> None, ability |-> None,
     ok |-> FALSE, reason |-> None, amount |-> R(0), dodged |-> FALSE,
     crit |-> FALSE, effects |-> 0, raised |-> None,
     arg |-> R(0), pre |-> EmptyDict]

\* the record of a call on the free-standing Stats object
NoStatCall == [op |-> None, name |-> None, pre |-> DefaultStats, n |-> 0]

\* no function is evaluated on its own in the runs of the actors
NoCalc == [fn |-> None]

Constructed ==
    /\ actors = [id \in ActorIds |->
                    IF id = "hero" THEN NewEntity(id, 1, HeroStats, 0)
                    ELSE NewEntity(id, 1, RatStats, 1)]
    /\ now = 0
    /\ nextUid = 1
    /\ steps = 0
    /\ last = NoCall
    /\ sb = DefaultStats
    /\ sbLast = NoStatCall

\* no CombatInstance has been created and no call made on one
Idle == combat = [session |-> None] /\ cLast = [op |-> None]

\* no QuestManager has been constructed
NoQuests == quest_manager = [manager |-> None]

Init == Constructed /\ calc = NoCalc /\ Idle /\ NoQuests

Step == steps < MaxSteps /\ steps' = steps + 1 /\ UNCHANGED <<sb, sbLast, calc, quest_manager, combat, cLast>>

TakeDamage(id) ==
    /\ Step
    /\ \E damage \in DamageInputs, roll \in RollsIf(actors[id].is_alive) :
       \E r \in {take_damage(actors[id], damage, "physical", roll)} :
              /\ actors' = [actors EXCEPT ![id] = r.actor]
              /\ last' = [Call("take_damage", id, None, None, FALSE, None,
                               r.amount, r.dodged, FALSE, 0, None)
                             EXCEPT !.arg = damage]
    /\ UNCHANGED <<now, nextUid>>

Heal(id) ==
    /\ Step
    /\ \E amount \in HealInputs :
       \E r \in {heal(actors[id], amount)} :
              /\ actors' = [actors EXCEPT ![id] = r.actor]
              /\ last' = [Call("heal", id, None, None, FALSE, None,
                               r.amount, FALSE, FALSE, 0, None)
                             EXCEPT !.arg = amount]
    /\ UNCHANGED <<now, nextUid>>

Die(id) ==
    /\ Step
    /\ actors' = [actors EXCEPT ![id] = die(@)]
    /\ last' = Call("die", id, None, None, FALSE, None, R(0), FALSE, FALSE, 0, None)
    /\ UNCHANGED <<now, nextUid>>

Resurrect(id) ==
    /\ Step
    /\ \E health_percentage \in FractionInputs :
          /\ actors' = [actors EXCEPT ![id] = resurrect(@, health_percentage)]
          /\ last' = Call("resurrect", id, None, None, FALSE, None,
                          health_percentage, FALSE, FALSE, 0, None)
    /\ UNCHANGED <<now, nextUid>>

\* the methods Entity.update calls on self that a class of the Entity
\* hierarchy defines; _update_cooldowns is defined by none of them
EntityMethods == {"_update_status_effects", "_update_resources", "die", "update_combat"}

\* self.name(...): the exception raised by the attribute lookup, if any
CallMethod(name) == IF name \in EntityMethods THEN None ELSE "AttributeError"

\* update(game_time) ends in the AttributeError of the missing _update_cooldowns
Update(id) ==
    /\ Step
    /\ \E rolls \in [1..Len(actors[id].status_effects) -> RollsIf(actors[id].is_alive)] :
          actors' = [actors EXCEPT ![id] = update(@, now, rolls)]
    /\ last' = Call("update", id, None, None, FALSE, None, R(0), FALSE, FALSE, 0,
                    CallMethod("_update_cooldowns"))
    /\ UNCHANGED <<now, nextUid>>

AddStatusEffect(id) ==
    /\ Step
    /\ Len(actors[id].status_effects) < MaxEffects
    /\ \E kind \in EffectKinds :
          /\ actors' = [actors EXCEPT ![id] =
                           add_status_effect(@, StatusEffect(kind, nextUid))]
          /\ last' = Call("add_status_effect", id, None, kind, FALSE, None,
                          R(0), FALSE, FALSE, 0, None)
    /\ nextUid' = nextUid + 1
    /\ UNCHANGED now

DealDamage(id) ==
    /\ Step
    /\ \E base_damage \in AttackInputs,
          crit_roll \in RollsIf(actors[id].is_alive /\ actors[Other(id)].is_alive),
          dodge_roll \in RollsIf(actors[id].is_alive /\ actors[Other(id)].is_alive) :
       \E r \in {deal_damage(actors, id, Other(id), base_damage, "physical",
                               crit_roll, dodge_roll)} :
              /\ actors' = r.actors
              /\ last' = Call("deal_damage", id, Other(id), None, FALSE, None,
                              r.amount, r.dodged, r.crit, 0, None)
    /\ UNCHANGED <<now, nextUid>>

UseAbility(id) ==
    /\ Step
    /\ \E ability_id \in AbilityInputs, target \in {None, Other(id)} :
       \E crit_roll \in RollsIf(Strikes(id, ability_id, target)),
          dodge_roll \in RollsIf(Strikes(id, ability_id, target)) :
       \E r \in {use_ability(actors, id, ability_id, target, now, nextUid,
                               crit_roll, dodge_roll)} :
              /\ actors' = IF r.ok
                            THEN [r.actors EXCEPT ![id].used_at = SetAttr(@, ability_id, now)]
                            ELSE r.actors
              /\ last' = Call("use_ability", id, target, ability_id, r.ok, r.reason,
                              R(0), FALSE, FALSE, r.effects, r.raised)
              /\ nextUid' = nextUid + (IF r.ok THEN Len(Abilities[ability_id].effects)
                                       ELSE 0)
    /\ UNCHANGED now

\* time passes between calls
Tick ==
    /\ now < MaxTime
    /\ now' = now + 1
    /\ UNCHANGED <<actors, nextUid, steps, last, sb, sbLast, calc, quest_manager, combat, cLast>>

\* the hero is called in every way; the rat is the other party of the hero's
\* attacks and abilities, and is itself only killed, revived and updated
Next ==
    \/ TakeDamage("hero")
    \/ Heal("hero")
    \/ \E id \in ActorIds : Die(id)
    \/ \E id \in ActorIds : Resurrect(id)
    \/ \E id \in ActorIds : Update(id)
    \/ AddStatusEffect("hero")
    \/ DealDamage("hero")
    \/ UseAbility("hero")
    \/ Tick

Spec == Init /\ [][Next]_vars

----------------------------------------------------------------------------
(* Actors at rest: nothing is called but update, on either actor, call       *)
(* after call; the game loop updates every entity in every frame             *)

UpdateAtRest(id) ==
    /\ \E rolls \in [1..Len(actors[id].status_effects) -> RollsIf(actors[id].is_alive)] :
       \E a \in {update(actors[id], now, rolls)} :
          actors' = [actors EXCEPT ![id] = a]
    /\ last' = Call("update", id, None, None, FALSE, None, R(0), FALSE, FALSE, 0,
                    CallMethod("_update_cooldowns"))
    /\ UNCHANGED <<now, nextUid, steps, sb, sbLast, calc, quest_manager, combat, cLast>>

\* the hero starts with stamina and mana at or below the maximum
InitRest ==
    /\ NoQuests
    /\ \E stamina \in {R(100), R(97)}, mana \in {R(20), R(13)} :
          actors = [id \in ActorIds |->
                       IF id = "hero"
                       THEN NewEntity(id, 1, [HeroStats EXCEPT !["stamina"] = stamina,
                                                               !["mana"] = mana], 0)
                       ELSE NewEntity(id, 1, RatStats, 1)]
    /\ now = 0
    /\ nextUid = 1
    /\ steps = 0
    /\ last = NoCall
    /\ sb = DefaultStats
    /\ sbLast = NoStatCall
    /\ calc = NoCalc
    /\ Idle

SpecRest ==
    /\ InitRest
    /\ [][\E id \in ActorIds : UpdateAtRest(id)]_vars
    /\ \A id \in ActorIds : WF_vars(UpdateAtRest(id))

----------------------------------------------------------------------------
(* Stats and StatusEffect on their own: modify_stat, and apply then remove *)

StatNameInputs == StatNames \cup {"luck"}
StatValueInputs == {Q(-1, 2), Q(1, 2), R(-150), R(30)}

ModifyStat ==
    /\ sbLast.n < MaxStatSteps
    /\ \E stat_name \in StatNameInputs, value \in StatValueInputs,
          is_percentage \in BOOLEAN :
          /\ sb' = modify_stat(sb, stat_name, value, is_percentage)
          /\ sbLast' = [op |-> "modify_stat", name |-> stat_name, pre |-> sb,
                        n |-> sbLast.n + 1]
    /\ UNCHANGED <<actors, now, nextUid, steps, last, calc, quest_manager, combat, cLast>>

\* effect.apply(target); effect.remove(target)
ApplyThenRemove ==
    /\ sbLast.n < MaxStatSteps
    /\ \E kind \in EffectKinds :
          /\ sb' = EffectRemove(EffectData[kind].stat_modifiers,
                                EffectApply(EffectData[kind].stat_modifiers, sb))
          /\ sbLast' = [op |-> "apply_remove", name |-> kind, pre |-> sb,
                        n |-> sbLast.n + 1]
    /\ UNCHANGED <<actors, now, nextUid, steps, last, calc, quest_manager, combat, cLast>>

NextStats == ModifyStat \/ ApplyThenRemove

SpecStats == Init /\ [][NextStats]_vars

----------------------------------------------------------------------------
(* _calculate_damage on its own: one base damage against two defense values *)

BaseInputs == {R(0), R(10), R(50)}
DefenseInputs == {R(0), R(5), Q(11, 2), R(10), R(50), R(100)}

\* an actor without effects whose defense stat is the given value
WithDefense(defense) ==
    NewEntity("hero", 1, [HeroStats EXCEPT !["defense"] = defense], 0)

InitDamage ==
    /\ NoQuests
    /\ Constructed
    /\ Idle
    /\ \E base \in BaseInputs, d1 \in DefenseInputs, d2 \in DefenseInputs :
          calc = [fn |-> None, base |-> base, d1 |-> d1, d2 |-> d2,
                  out1 |-> R(0), out2 |-> R(0)]

CalculateDamage ==
    /\ calc.fn = None
    /\ calc' = [calc EXCEPT
                   !.fn = "calculate_damage",
                   !.out1 = calculate_damage(WithDefense(calc.d1), calc.base, "physical"),
                   !.out2 = calculate_damage(WithDefense(calc.d2), calc.base, "physical")]
    /\ UNCHANGED <<actors, now, nextUid, steps, last, sb, sbLast, combat, cLast, quest_manager>>

NextDamage == CalculateDamage

SpecDamage == InitDamage /\ [][NextDamage]_vars

----------------------------------------------------------------------------
(* The damage-over-time scenario: Poison is attached at time 0 to a living   *)
(* actor, which is then updated at times 1, 2 and 3                          *)

HealthInputs == {R(20), R(30), R(40), R(50), R(60), R(70), R(80), R(90), R(100)}
ScenarioDefense == {R(0), R(5)}
LastUpdate == 3

InitPoison ==
    /\ NoQuests
    /\ \E health \in HealthInputs, defense \in ScenarioDefense :
          /\ actors = [id \in ActorIds |->
                          IF id = "hero"
                          THEN NewEntity(id, 1, [HeroStats EXCEPT !["health"] = health,
                                                                  !["defense"] = defense], 0)
                          ELSE NewEntity(id, 1, RatStats, 1)]
          /\ calc = [fn |-> "poison", stage |-> 0, health |-> health]
    /\ now = 0
    /\ nextUid = 1
    /\ steps = 0
    /\ last = NoCall
    /\ sb = DefaultStats
    /\ sbLast = NoStatCall
    /\ Idle

AttachPoison ==
    /\ calc.stage = 0
    /\ actors' = [actors EXCEPT !["hero"] =
                     add_status_effect(@, StatusEffect("Poison", nextUid))]
    /\ nextUid' = nextUid + 1
    /\ last' = Call("add_status_effect", "hero", None, "Poison", FALSE, None,
                    R(0), FALSE, FALSE, 0, None)
    /\ calc' = [calc EXCEPT !.stage = 1]
    /\ UNCHANGED <<now, steps, sb, sbLast, combat, cLast, quest_manager>>

\* update(1), update(2), update(3)
UpdateAt ==
    /\ calc.stage \in 1..LastUpdate
    /\ now' = calc.stage
    /\ \E rolls \in [1..Len(actors["hero"].status_effects)
                        -> RollsIf(actors["hero"].is_alive)] :
          actors' = [actors EXCEPT !["hero"] = update(@, calc.stage, rolls)]
    /\ last' = Call("update", "hero", None, None, FALSE, None, R(0), FALSE, FALSE, 0,
                    CallMethod("_update_cooldowns"))
    /\ calc' = [calc EXCEPT !.stage = @ + 1]
    /\ UNCHANGED <<nextUid, steps, sb, sbLast, combat, cLast, quest_manager>>

NextPoison == AttachPoison \/ UpdateAt

SpecPoison == InitPoison /\ [][NextPoison]_vars

----------------------------------------------------------------------------
(* combat.py and game.py: a CombatInstance between the hero (the player)     *)
(* and the rat (the enemy), the engine's attack command, and the turn of a   *)
(* CombatManager                                                             *)

\* self.player.level
LevelInputs == {1, 7}

\* what the player object answers to get_skill_level('defense'): << >> for an
\* object without that method (an Entity), <<n>> for one that returns n
SkillInputs == {<< >>, <<2>>}

MaxTurns == 6       \* calls on the session, the engine and the manager

\* the attributes CombatInstance.__init__ assigns and the methods the class
\* defines
InstanceAttributes ==
    {"combat_id", "player", "enemy", "start_time", "end_time", "turn",
     "last_action_time", "combat_log", "active_effects", "ability_cooldowns",
     "player_status", "enemy_status",
     "update", "_update_cooldowns", "_try_dodge", "_initialize_combat",
     "_apply_pre_combat_effects", "_process_turn", "handle_player_action",
     "_handle_player_attack", "_handle_player_defend", "is_finished",
     "get_winner", "end", "add_combat_log", "get_combat_log", "get_state",
     "save_combat_state"}

\* self.name on a CombatInstance: the exception the lookup raises, if any
InstanceLookup(name) == IF name \in InstanceAttributes THEN None ELSE "AttributeError"

\* end_time is << >> for None and <<t>> once it is set; combat_log is the
\* number of entries
CombatInstance(A, player, enemy) ==
    [player |-> player, enemy |-> enemy, end_time |-> << >>, turn |-> 1,
     combat_log |-> 0,
     player_status |-> [stamina |-> 100, defense_bonus |-> 0, combo_counter |-> 0,
                        dodge_chance |-> A[player].stats["dodge_chance"],
                        crit_chance |-> A[player].stats["critical_chance"]],
     enemy_status |-> [defense_bonus |-> R(0)]]

is_finished(A, c) ==
    ~A[c.player].is_alive \/ ~A[c.enemy].is_alive \/ c.end_time # << >>

add_combat_log(c) == [c EXCEPT !.combat_log = @ + 1]

\* the result of a call on the session: the actors, the session, the first
\* component of the returned pair and the exception that ended the call
Outcome(A, c, ok, raised) == [actors |-> A, session |-> c, ok |-> ok, raised |-> raised]

\* _handle_player_attack from the write to the enemy's health on: the next
\* statement reads self.combat_stats
StrikeEnemy(A, c, final_damage) ==
    IF InstanceLookup("combat_stats") # None
    THEN Outcome([A EXCEPT ![c.enemy].stats["health"] = RSub(@, final_damage)],
                 c, FALSE, InstanceLookup("combat_stats"))
    ELSE Outcome([A EXCEPT ![c.enemy].stats["health"] = RSub(@, final_damage)],
                 add_combat_log(
                     IF c.player_status.combo_counter + 1 >= 3
                     THEN add_combat_log([c EXCEPT !.player_status.combo_counter = @ + 1])
                     ELSE [c EXCEPT !.player_status.combo_counter = @ + 1]),
                 TRUE, None)

\* the player's inventory is None: no weapon is added to the strength
handle_player_attack(A, c, roll) ==
    LET is_crit == RLt(roll, c.player_status.crit_chance)
        defense == RAdd(A[c.enemy].stats["defense"], c.enemy_status.defense_bonus)
    IN  IF is_crit /\ InstanceLookup("combat_stats") # None
        THEN Outcome(A, c, FALSE, InstanceLookup("combat_stats"))
        ELSE StrikeEnemy(A, IF is_crit THEN add_combat_log(c) ELSE c,
                         RMax(R(1), RSub(IF is_crit
                                         THEN RMul(A[c.player].stats["strength"], R(2))
                                         ELSE A[c.player].stats["strength"],
                                         defense)))

\* _handle_player_defend, and before it one that does not ask for the skill
\* level
handle_player_defend_plain(A, c, skill) ==
    Outcome(A,
            add_combat_log(
                [c EXCEPT !.player_status.defense_bonus = 5,
                          !.player_status.stamina = IF @ + 20 < 100 THEN @ + 20 ELSE 100]),
            TRUE, None)

handle_player_defend(A, c, skill) ==
    Outcome(A,
            add_combat_log(
                [c EXCEPT !.player_status.defense_bonus =
                              5 + (IF skill # << >> THEN skill[1] * 1 ELSE 0),
                          !.player_status.stamina = IF @ + 20 < 100 THEN @ + 20 ELSE 100]),
            TRUE, None)

handle_player_action(A, c, skill, action_type, roll) ==
    CASE action_type = "attack" -> handle_player_attack(A, c, roll)
      [] action_type = "defend" -> handle_player_defend(A, c, skill)
      [] action_type = "use_ability" ->
            Outcome(A, c, FALSE, InstanceLookup("_handle_player_ability"))
      [] action_type = "use_item" ->
            Outcome(A, c, FALSE, InstanceLookup("_handle_use_item"))
      [] action_type = "escape" ->
            Outcome(A, c, FALSE, InstanceLookup("_handle_escape_attempt"))
      [] OTHER -> Outcome(A, c, FALSE, None)

\* CombatInstance.update: a finished session returns at once, any other one
\* ends at the call of self._update_status_effects
combat_update(A, c, game_time) ==
    IF is_finished(A, c) THEN Outcome(A, c, FALSE, None)
    ELSE Outcome(A, c, FALSE, InstanceLookup("_update_status_effects"))

\* CombatInstance.end: game_config.get('game_time', 0) is 0, the configuration
\* holds no such key; the call of self._clear_combat_effects comes after the
\* assignments; before it, an end that leaves end_time alone
end_keeps_time(A, c, winner) ==
    Outcome([A EXCEPT ![c.player].in_combat = FALSE, ![c.enemy].in_combat = FALSE],
            c, FALSE, InstanceLookup("_clear_combat_effects"))

end(A, c, winner) ==
    Outcome([A EXCEPT ![c.player].in_combat = FALSE, ![c.enemy].in_combat = FALSE],
            [c EXCEPT !.end_time = <<0>>],
            FALSE, InstanceLookup("_clear_combat_effects"))

\* _initialize_combat: an Entity has neither equipment nor get_active_effects,
\* so _apply_pre_combat_effects does nothing; two entries are logged
initialize_combat(A, c) ==
    Outcome([A EXCEPT ![c.player].in_combat = TRUE, ![c.enemy].in_combat = TRUE],
            add_combat_log(add_combat_log(c)), FALSE, None)

\* the attributes CombatSystem.__init__ assigns
SystemAttributes == {"active_combats", "combat_log", "event_manager"}

\* CombatSystem.start_combat: the exception that ends it, if any; it reads
\* self.combat_history before it creates the CombatInstance
start_combat(player, enemy) ==
    IF "combat_history" \in SystemAttributes THEN None ELSE "AttributeError"

\* the enemies in the player's location, by name
Enemies == {"rat", "wolf"}

\* GameEngine._handle_attack: active_combats is the set of enemy ids that
\* the engine's dictionary maps to a session
handle_attack(active_combats, target) ==
    IF target = ""
    THEN [active_combats |-> active_combats, message |-> "whom", raised |-> None]
    ELSE IF target \notin Enemies
    THEN [active_combats |-> active_combats, message |-> "absent", raised |-> None]
    ELSE IF target \in active_combats
    THEN [active_combats |-> active_combats, message |-> "already", raised |-> None]
    ELSE IF start_combat("hero", target) # None
    THEN [active_combats |-> active_combats, message |-> None,
          raised |-> start_combat("hero", target)]
    ELSE [active_combats |-> active_combats \cup {target}, message |-> "started",
          raised |-> None]

\* the names bound in combat.py: its imports, its logger and its definitions
CombatGlobals ==
    {"tk", "ttk", "scrolledtext", "random", "Dict", "Optional", "Tuple", "List",
     "logging", "game_config", "Entity", "Player", "logger", "CombatSystem",
     "CombatInstance", "CombatManager", "CombatDialog", "AbilitySelectionDialog",
     "start_combat_gui"}

\* the exception that reading a global name of combat.py raises, if any
GlobalLookup(name) == IF name \in CombatGlobals THEN None ELSE "NameError"

\* 0.3 + (self.player.level * 0.1)
escape_chance(level) == RAdd(Q(3, 10), RMul(R(level), Q(1, 10)))

DrawInputs == {R(0), Q(1, 2), Q(99, 100)}

\* CombatManager.handle_player_turn: show_combat_status comes first and reads
\* the global Fore; the result "False" stands for the value False that the
\* item menu returns, once show_usable_items has read the inventory of the
\* player, which is None
handle_player_turn(A, action, r) ==
    IF GlobalLookup("Fore") # None
    THEN [result |-> None, raised |-> GlobalLookup("Fore")]
    ELSE IF action = "2"
    THEN [result |-> "False", raised |-> "AttributeError"]
    ELSE IF action = "3" /\ RLt(r, escape_chance(A["hero"].level))
    THEN [result |-> "escaped", raised |-> None]
    ELSE IF RLe(A["rat"].stats["health"], R(0))
    THEN [result |-> "victory", raised |-> None]
    ELSE [result |-> None, raised |-> None]

\* the record of a call on the session, the engine or the manager; step is
\* the number of the call among all calls made
CombatCall(op, action, ok, raised) ==
    [op |-> op, action |-> action, ok |-> ok, raised |-> raised,
     step |-> steps + 1,
     crit |-> FALSE, message |-> None, draw |-> R(0), result |-> None,
     enemy_turn |-> FALSE, pre |-> actors, before |-> combat]

InitCombat ==
    /\ NoQuests
    /\ \E level \in LevelInputs, skill \in SkillInputs :
          /\ actors = [id \in ActorIds |->
                          IF id = "hero" THEN NewEntity(id, level, HeroStats, 0)
                          ELSE NewEntity(id, 1, RatStats, 1)]
          /\ combat = [session |-> CombatInstance(actors, "hero", "rat"),
                       skill |-> skill, active_combats |-> {}, ended |-> FALSE,
                       registered |-> FALSE]
    /\ now = 0
    /\ nextUid = 1
    /\ steps = 0
    /\ last = NoCall
    /\ sb = DefaultStats
    /\ sbLast = NoStatCall
    /\ calc = NoCalc
    /\ cLast = [op |-> None]

Turn ==
    /\ steps < MaxTurns
    /\ steps' = steps + 1
    /\ UNCHANGED <<now, nextUid, last, sb, sbLast, calc, quest_manager>>

HandlePlayerAction ==
    /\ Turn
    /\ \E action_type \in {"attack", "defend", "use_ability", "use_item",
                             "escape", "dance"} :
       \E roll \in RollsIf(action_type = "attack") :
       \E r \in {handle_player_action(actors, combat.session, combat.skill,
                                      action_type, roll)} :
              /\ actors' = r.actors
              /\ combat' = [combat EXCEPT !.session = r.session]
              /\ cLast' = [CombatCall("handle_player_action", action_type,
                                      r.ok, r.raised)
                              EXCEPT !.crit = (action_type = "attack"
                                               /\ RLt(roll, combat.session.player_status.crit_chance))]

CombatUpdate ==
    /\ Turn
    /\ \E r \in {combat_update(actors, combat.session, now)} :
          /\ actors' = r.actors
          /\ combat' = [combat EXCEPT !.session = r.session]
          /\ cLast' = CombatCall("update", None, r.ok, r.raised)

\* ended is history: end has been called on the session
End ==
    /\ Turn
    /\ \E winner \in {None, "hero", "rat"} :
       \E r \in {end(actors, combat.session, winner)} :
          /\ actors' = r.actors
          /\ combat' = [combat EXCEPT !.session = r.session, !.ended = TRUE]
          /\ cLast' = CombatCall("end", winner, r.ok, r.raised)

InitializeCombat ==
    /\ Turn
    /\ \E r \in {initialize_combat(actors, combat.session)} :
          /\ actors' = r.actors
          /\ combat' = [combat EXCEPT !.session = r.session]
          /\ cLast' = CombatCall("_initialize_combat", None, r.ok, r.raised)

HandleAttack ==
    /\ Turn
    /\ \E target \in Enemies \cup {"", "ghost"} :
       \E r \in {handle_attack(combat.active_combats, target)} :
          /\ combat' = [combat EXCEPT !.active_combats = r.active_combats]
          /\ cLast' = [CombatCall("_handle_attack", target, r.raised = None, r.raised)
                          EXCEPT !.message = r.message]
    /\ UNCHANGED actors

\* the choice "2" is the item menu, "3" the escape, "0" one that the method
\* does not know; enemy_turn: start_combat goes on to handle_enemy_turn after
\* this turn, which "if result: return result" lets it do for None and for
\* False
HandlePlayerTurn ==
    /\ Turn
    /\ \E action \in {"2", "3", "0"}, draw \in DrawInputs :
       \E r \in {handle_player_turn(actors, action, draw)} :
          cLast' = [CombatCall("handle_player_turn", action, r.raised = None, r.raised)
                       EXCEPT !.draw = draw, !.result = r.result,
                              !.enemy_turn = (r.raised = None
                                              /\ r.result \in {None, "False"})]
    /\ UNCHANGED <<actors, combat>>

NextCombat ==
    \/ HandlePlayerAction
    \/ CombatUpdate
    \/ End
    \/ InitializeCombat
    \/ HandleAttack
    \/ HandlePlayerTurn
    \/ \E id \in ActorIds : Die(id)

SpecCombat == InitCombat /\ [][NextCombat]_vars

\* get_winner: None while the session is not finished, and for a session
\* that was ended with both sides alive
get_winner(A, c) ==
    IF ~is_finished(A, c) THEN None
    ELSE IF ~A[c.enemy].is_alive THEN c.player
    ELSE IF ~A[c.player].is_alive THEN c.enemy
    ELSE None

----------------------------------------------------------------------------
(* A CombatSystem whose active_combats holds the session: registered is      *)
(* combat_id in self.active_combats                                          *)

\* CombatSystem.end_combat: combat.end(winner), the history, then the del
end_combat(A, c, registered, winner) ==
    IF ~registered
    THEN [actors |-> A, session |-> c, registered |-> registered, raised |-> None]
    ELSE LET r == end(A, c, winner)
         IN  IF r.raised # None
             THEN [actors |-> r.actors, session |-> r.session,
                   registered |-> TRUE, raised |-> r.raised]
             ELSE IF "combat_history" \notin SystemAttributes
             THEN [actors |-> r.actors, session |-> r.session,
                   registered |-> TRUE, raised |-> "AttributeError"]
             ELSE [actors |-> r.actors, session |-> r.session,
                   registered |-> FALSE, raised |-> None]

\* CombatSystem.update over the one session of active_combats
system_update(A, c, registered, game_time) ==
    IF ~registered
    THEN [actors |-> A, session |-> c, registered |-> registered, raised |-> None]
    ELSE IF is_finished(A, c)
    THEN end_combat(A, c, registered, get_winner(A, c))
    ELSE LET r == combat_update(A, c, game_time)
         IN  [actors |-> r.actors, session |-> r.session,
              registered |-> registered, raised |-> r.raised]

\* the state that the assignment self.active_combats[combat_id] = combat of
\* start_combat makes
InitSystem ==
    /\ NoQuests
    /\ \E level \in LevelInputs, skill \in SkillInputs :
          /\ actors = [id \in ActorIds |->
                          IF id = "hero" THEN NewEntity(id, level, HeroStats, 0)
                          ELSE NewEntity(id, 1, RatStats, 1)]
          /\ combat = [session |-> CombatInstance(actors, "hero", "rat"),
                       skill |-> skill, active_combats |-> {}, ended |-> FALSE,
                       registered |-> TRUE]
    /\ now = 0
    /\ nextUid = 1
    /\ steps = 0
    /\ last = NoCall
    /\ sb = DefaultStats
    /\ sbLast = NoStatCall
    /\ calc = NoCalc
    /\ cLast = [op |-> None]

\* ended: end has been called on the session, by end_combat here
SystemUpdate ==
    /\ Turn
    /\ \E r \in {system_update(actors, combat.session, combat.registered, now)} :
          /\ actors' = r.actors
          /\ combat' = [combat EXCEPT !.session = r.session,
                                      !.registered = r.registered,
                                      !.ended = @ \/ (combat.registered
                                                      /\ is_finished(actors, combat.session))]
          /\ cLast' = CombatCall("system_update",
                                 get_winner(actors, combat.session),
                                 r.raised = None, r.raised)

EndCombat ==
    /\ Turn
    /\ \E winner \in {None, "hero", "rat"} :
       \E r \in {end_combat(actors, combat.session, combat.registered, winner)} :
          /\ actors' = r.actors
          /\ combat' = [combat EXCEPT !.session = r.session,
                                      !.registered = r.registered,
                                      !.ended = @ \/ combat.registered]
          /\ cLast' = CombatCall("end_combat", winner, r.raised = None, r.raised)

SpecSystem ==
    InitSystem /\ [][\/ SystemUpdate
                     \/ EndCombat
                     \/ HandlePlayerAction
                     \/ \E id \in ActorIds : Die(id)]_vars

----------------------------------------------------------------------------
(* The CombatManager: player_stamina, abilities_cooldowns and the turn       *)
(* counter, under use_ability and the update_combat_state that ends a turn   *)

MaxCalls == 9       \* calls on the manager

\* the abilities table of CombatManager.use_ability
ManagerAbilities ==
    [thrust |-> [min_level |-> 3, stamina_cost |-> 30, cooldown |-> 3],
     whirlwind |-> [min_level |-> 5, stamina_cost |-> 50, cooldown |-> 5]]

\* the result of use_ability: the manager, the returned pair and the
\* exception that ended the call
Used(m, ok, message, raised) ==
    [manager |-> m, ok |-> ok, message |-> message, raised |-> raised]

\* CombatManager.use_ability; skill is what the player object answers to
\* get_skill_level, << >> for a player without that method; before it, one
\* that looks at the cooldown before it looks at the stamina
manager_use_ability_cooldown_first(m, skill, ability_name) ==
    IF skill = << >> THEN Used(m, FALSE, None, "AttributeError")
    ELSE IF ability_name \notin DOMAIN ManagerAbilities
    THEN Used(m, FALSE, "unknown", None)
    ELSE IF skill[1] < ManagerAbilities[ability_name].min_level
    THEN Used(m, FALSE, "level", None)
    ELSE IF /\ ability_name \in DOMAIN m.abilities_cooldowns
            /\ m.abilities_cooldowns[ability_name] > 0
    THEN Used(m, FALSE, "cooldown", None)
    ELSE IF m.player_stamina < ManagerAbilities[ability_name].stamina_cost
    THEN Used(m, FALSE, "stamina", None)
    ELSE Used([m EXCEPT !.player_stamina =
                            @ - ManagerAbilities[ability_name].stamina_cost,
                        !.abilities_cooldowns =
                            SetAttr(@, ability_name,
                                    ManagerAbilities[ability_name].cooldown)],
              TRUE, "used", None)

manager_use_ability(m, skill, ability_name) ==
    IF skill = << >> THEN Used(m, FALSE, None, "AttributeError")
    ELSE IF ability_name \notin DOMAIN ManagerAbilities
    THEN Used(m, FALSE, "unknown", None)
    ELSE IF skill[1] < ManagerAbilities[ability_name].min_level
    THEN Used(m, FALSE, "level", None)
    ELSE IF m.player_stamina < ManagerAbilities[ability_name].stamina_cost
    THEN Used(m, FALSE, "stamina", None)
    ELSE IF /\ ability_name \in DOMAIN m.abilities_cooldowns
            /\ m.abilities_cooldowns[ability_name] > 0
    THEN Used(m, FALSE, "cooldown", None)
    ELSE Used([m EXCEPT !.player_stamina =
                            @ - ManagerAbilities[ability_name].stamina_cost,
                        !.abilities_cooldowns =
                            SetAttr(@, ability_name,
                                    ManagerAbilities[ability_name].cooldown)],
              TRUE, "used", None)

\* the loop over the keys of abilities_cooldowns: a positive entry is
\* decremented, and an entry that is not positive after that is deleted
Decremented(cooldowns) ==
    LET after(ability) == IF cooldowns[ability] > 0 THEN cooldowns[ability] - 1
                          ELSE cooldowns[ability]
    IN  [ability \in {k \in DOMAIN cooldowns : after(k) > 0} |-> after(ability)]

\* update_combat_state, and before it one that adds the stamina without the
\* min(100, ...)
update_combat_state_uncapped(m) ==
    [m EXCEPT !.player_stamina = @ + 10,
              !.abilities_cooldowns = Decremented(@)]

update_combat_state(m) ==
    [m EXCEPT !.player_stamina = IF @ + 10 < 100 THEN @ + 10 ELSE 100,
              !.abilities_cooldowns = Decremented(@)]

\* CombatManager.__init__; used, called and single are history: the turn of
\* the last successful use of each ability, use_ability has been called in
\* this turn, and no turn so far has seen more than one use_ability call (the
\* loop of start_combat takes one action of the player in a turn)
InitManager ==
    /\ NoQuests
    /\ Constructed
    /\ calc = NoCalc
    /\ cLast = [op |-> None]
    /\ \E skill \in {<< >>, <<2>>, <<3>>, <<5>>} :
          combat = [manager |-> [turn |-> 1, player_stamina |-> 100,
                                 abilities_cooldowns |-> EmptyDict],
                    skill |-> skill, used |-> EmptyDict,
                    called |-> FALSE, single |-> TRUE]

ManagerUseAbility ==
    /\ steps < MaxCalls
    /\ steps' = steps + 1
    /\ \E ability_name \in {"thrust", "whirlwind", "kick"} :
       \E r \in {manager_use_ability(combat.manager, combat.skill, ability_name)} :
          /\ combat' = [combat EXCEPT !.manager = r.manager,
                                      !.used = IF r.ok
                                               THEN SetAttr(@, ability_name,
                                                            combat.manager.turn)
                                               ELSE @,
                                      !.called = TRUE,
                                      !.single = @ /\ ~combat.called]
          /\ cLast' = [CombatCall("use_ability", ability_name, r.ok, r.raised)
                          EXCEPT !.message = r.message]
    /\ UNCHANGED <<actors, now, nextUid, last, sb, sbLast, calc, quest_manager>>

\* the end of a turn of start_combat: update_combat_state, then turn += 1
UpdateCombatState ==
    /\ steps < MaxCalls
    /\ steps' = steps + 1
    /\ combat' = [combat EXCEPT !.manager =
                                    [update_combat_state(@) EXCEPT !.turn = @ + 1],
                                !.called = FALSE]
    /\ cLast' = CombatCall("update_combat_state", None, TRUE, None)
    /\ UNCHANGED <<actors, now, nextUid, last, sb, sbLast, calc, quest_manager>>

SpecManager == InitManager /\ [][ManagerUseAbility \/ UpdateCombatState]_vars

----------------------------------------------------------------------------
(* An open session on which the player only attacks: nothing but             *)
(* handle_player_action("attack") is called, again and again                 *)

PlayerAttack ==
    /\ HandlePlayerAction
    /\ cLast'.action = "attack"

\* the session is opened on an enemy that is unhurt or already wounded, so
\* that attacks are still made after its health has reached 0
InitAttacks ==
    /\ NoQuests
    /\ \E level \in LevelInputs, skill \in SkillInputs, health \in {R(30), R(10)} :
          /\ actors = [id \in ActorIds |->
                          IF id = "hero" THEN NewEntity(id, level, HeroStats, 0)
                          ELSE NewEntity(id, 1, [RatStats EXCEPT !["health"] = health], 1)]
          /\ combat = [session |-> CombatInstance(actors, "hero", "rat"),
                       skill |-> skill, active_combats |-> {}, ended |-> FALSE,
                       registered |-> FALSE]
    /\ now = 0
    /\ nextUid = 1
    /\ steps = 0
    /\ last = NoCall
    /\ sb = DefaultStats
    /\ sbLast = NoStatCall
    /\ calc = NoCalc
    /\ cLast = [op |-> None]

\* the player keeps attacking: an attack that is possible is made
SpecAttacks == InitAttacks /\ [][PlayerAttack]_vars /\ WF_vars(PlayerAttack)

----------------------------------------------------------------------------
(* quests.py: the QuestManager with two quests loaded, and a player who      *)
(* holds gold                                                                *)

MaxQuestCalls == 5   \* calls made on the QuestManager per behaviour

QuestIds == {"rats", "herbs"}

\* the data of the quests as load_quests reads them; count is << >> where the
\* stage has no 'count' key, rewards hold gold only
QuestData ==
    [id \in QuestIds |->
        IF id = "rats"
        THEN [min_level |-> 2, repeatable |-> FALSE, rewards |-> [gold |-> 10],
              stages |-> << [objective |-> "kill", target |-> "rat", count |-> <<2>>] >>]
        ELSE [min_level |-> 1, repeatable |-> TRUE, rewards |-> [gold |-> 5],
              stages |-> << [objective |-> "collect", target |-> "herb", count |-> << >>],
                            [objective |-> "visit", target |-> "healer", count |-> << >>] >>]]

\* Quest.__init__
NewQuest == [current_stage |-> 0, completed |-> FALSE, active |-> FALSE, failed |-> FALSE]

\* Quest.start
start(quest) == [quest EXCEPT !.active = TRUE, !.current_stage = 0]

\* Quest.complete
complete(quest) == [quest EXCEPT !.completed = TRUE, !.active = FALSE]

\* Quest.advance_stage: on the last stage it calls complete() itself
advance_stage(quest, stages) ==
    IF quest.current_stage < Len(stages) - 1
    THEN [quest |-> [quest EXCEPT !.current_stage = @ + 1], success |-> TRUE]
    ELSE [quest |-> complete(quest), success |-> FALSE]

\* Quest.can_start for quests without prerequisites
can_start(data, player) == ~(player.level < data.min_level)

\* the number of times x occurs in the list
Occurrences(list, x) == Cardinality({i \in 1..Len(list) : list[i] = x})

\* list.remove(x): the list without the first occurrence of x
Remove(list, x) ==
    LET first == CHOOSE i \in 1..Len(list) :
                     list[i] = x /\ \A j \in 1..(i - 1) : list[j] # x
    IN  SubSeq(list, 1, first - 1) \o SubSeq(list, first + 1, Len(list))

\* QuestManager.__init__, after load_quests has read QuestData; granted counts
\* for each quest how many times complete_quest has handed out its rewards
NewQuestManager(level) ==
    [quests |-> [id \in QuestIds |-> NewQuest],
     active_quests |-> << >>, completed_quests |-> << >>,
     player |-> [level |-> level, gold |-> 0],
     granted |-> [id \in QuestIds |-> 0]]

\* QuestManager.start_quest
start_quest(m, quest_id) ==
    IF quest_id \notin DOMAIN m.quests THEN [m |-> m, ok |-> FALSE]
    ELSE IF m.quests[quest_id].active THEN [m |-> m, ok |-> FALSE]
    ELSE IF m.quests[quest_id].completed /\ ~QuestData[quest_id].repeatable
    THEN [m |-> m, ok |-> FALSE]
    ELSE IF ~can_start(QuestData[quest_id], m.player) THEN [m |-> m, ok |-> FALSE]
    ELSE [m |-> [m EXCEPT !.quests[quest_id] = start(@),
                          !.active_quests = Append(@, quest_id)],
          ok |-> TRUE]

\* QuestManager.complete_quest: a quest that is not active gets nothing
complete_quest(m, quest_id) ==
    IF quest_id \notin DOMAIN m.quests THEN [m |-> m, ok |-> FALSE, raised |-> None]
    ELSE IF ~m.quests[quest_id].active THEN [m |-> m, ok |-> FALSE, raised |-> None]
    ELSE LET rewarded == [m EXCEPT !.player.gold = @ + QuestData[quest_id].rewards.gold,
                                   !.granted[quest_id] = @ + 1,
                                   !.quests[quest_id] = complete(@)]
         IN  IF Occurrences(m.active_quests, quest_id) = 0
             THEN [m |-> rewarded, ok |-> FALSE, raised |-> "ValueError"]
             ELSE [m |-> [rewarded EXCEPT
                            !.active_quests = Remove(@, quest_id),
                            !.completed_quests = Append(@, quest_id)],
                   ok |-> TRUE, raised |-> None]

\* the test that update_quest_progress makes on the current stage of a quest
StageMatches(stage, event_type, target, count) ==
    /\ stage.objective = event_type
    /\ stage.target = target
    /\ stage.count # << >> => count >= stage.count[1]

\* QuestManager.update_quest_progress from the i-th element of active_quests
\* on, as the for loop walks the list by position
RECURSIVE update_quest_progress_from(_, _, _, _, _)
update_quest_progress_from(m, i, event_type, target, count) ==
    IF i > Len(m.active_quests) THEN m
    ELSE LET id == m.active_quests[i]
             stages == QuestData[id].stages
             stage == stages[m.quests[id].current_stage + 1]
         IN  IF StageMatches(stage, event_type, target, count)
             THEN LET advanced == advance_stage(m.quests[id], stages)
                      m1 == [m EXCEPT !.quests[id] = advanced.quest]
                      m2 == IF ~advanced.success THEN complete_quest(m1, id).m ELSE m1
                  IN  update_quest_progress_from(m2, i + 1, event_type, target, count)
             ELSE update_quest_progress_from(m, i + 1, event_type, target, count)

update_quest_progress(m, event_type, target, count) ==
    update_quest_progress_from(m, 1, event_type, target, count)

\* a call on the QuestManager, with the manager as it was before the call
QuestCall(op, quest_id, event_type, target, count) ==
    [op |-> op, quest_id |-> quest_id, event_type |-> event_type,
     target |-> target, count |-> count, before |-> quest_manager.manager]

InitQuests ==
    /\ Constructed
    /\ calc = NoCalc
    /\ Idle
    /\ \E level \in {1, 2} :
          quest_manager = [manager |-> NewQuestManager(level), last |-> [op |-> None]]

QuestStep ==
    /\ steps < MaxQuestCalls
    /\ steps' = steps + 1
    /\ UNCHANGED <<actors, now, nextUid, last, sb, sbLast, calc, combat, cLast>>

\* "dragon" is a quest that the data does not hold
StartQuest ==
    /\ QuestStep
    /\ \E quest_id \in QuestIds \cup {"dragon"} :
          quest_manager' = [manager |-> start_quest(quest_manager.manager, quest_id).m,
                            last |-> QuestCall("start_quest", quest_id, None, None, 0)]

\* the events that the game reports: a kill, a collected item, a visit
UpdateQuestProgress ==
    /\ QuestStep
    /\ \E event \in {<<"kill", "rat">>, <<"collect", "herb">>, <<"visit", "healer">>},
          count \in {1, 2} :
          quest_manager' =
              [manager |-> update_quest_progress(quest_manager.manager,
                                                 event[1], event[2], count),
               last |-> QuestCall("update_quest_progress", None,
                                  event[1], event[2], count)]

\* complete_quest as the listener of the 'quest_complete' event
CompleteQuest ==
    /\ QuestStep
    /\ \E quest_id \in QuestIds :
          quest_manager' = [manager |-> complete_quest(quest_manager.manager, quest_id).m,
                            last |-> QuestCall("complete_quest", quest_id, None, None, 0)]

SpecQuests == InitQuests /\ [][StartQuest \/ UpdateQuestProgress \/ CompleteQuest]_vars

----------------------------------------------------------------------------
(* Properties of the specification *)

Called(ops) == last.op \in ops
Positive(x) == RLt(R(0), x)

\* C1: after every take_damage, heal, die, resurrect (with any health
\* fraction) or update call on an actor, is_alive is true exactly when
\* stats.health > 0.
C1_DeathInvariant ==
    Called({"take_damage", "heal", "die", "resurrect", "update"}) =>
        actors[last.self].is_alive = Positive(actors[last.self].stats["health"])

InList(a, uid) == \E i \in 1..Len(a.status_effects) : a.status_effects[i].uid = uid

\* C2: every effect in an actor's active list has had its modifiers applied
\* exactly once and not reverted, and every effect that was applied and has
\* left the list has been reverted exactly once; no effect is reverted twice.
C2_EffectsAppliedOrReverted ==
    \A id \in ActorIds :
        LET a == actors[id]
        IN  /\ \A i \in 1..Len(a.status_effects) :
                  /\ Count(a.applied, a.status_effects[i].uid) = 1
                  /\ Count(a.reverted, a.status_effects[i].uid) = 0
            /\ \A uid \in DOMAIN a.applied :
                  ~InList(a, uid) => Count(a.reverted, uid) = 1
            /\ \A uid \in DOMAIN a.reverted : a.reverted[uid] <= 1

\* C3: when a die, take_damage or update call on a living actor returns with
\* the actor dead, the actor's active list holds only permanent effects.
C3_DeadKeepsOnlyPermanent ==
    (/\ Called({"die", "take_damage", "update"})
     /\ last.pre[last.self].is_alive
     /\ ~actors[last.self].is_alive)
    => \A i \in 1..Len(actors[last.self].status_effects) :
          actors[last.self].status_effects[i].is_permanent

\* C4: for a dead actor, take_damage, deal_damage (the dead actor attacking or
\* attacked), heal and use_ability return their zero/false result and leave
\* the actor and the target as they were.
C4_DeadActorCallsChangeNothing ==
    /\ (Called({"take_damage", "heal"}) /\ ~last.pre[last.self].is_alive)
          => (last.amount = R(0) /\ ~last.dodged /\ actors = last.pre)
    /\ (Called({"deal_damage"}) /\ (~last.pre[last.self].is_alive
                                    \/ ~last.pre[last.target].is_alive))
          => (last.amount = R(0) /\ ~last.dodged /\ ~last.crit /\ actors = last.pre)
    /\ (Called({"use_ability"}) /\ ~last.pre[last.self].is_alive)
          => (~last.ok /\ last.effects = 0
              /\ \A id \in ActorIds :
                    /\ actors[id].stats = last.pre[id].stats
                    /\ actors[id].status_effects = last.pre[id].status_effects
                    /\ actors[id].cooldowns = last.pre[id].cooldowns
                    /\ actors[id].combat_stats = last.pre[id].combat_stats)

\* C5: a call of take_damage, heal, update, add_status_effect, use_ability or
\* die never makes a dead actor alive and never raises its health above 0.
C5_OnlyResurrectRevives ==
    Called({"take_damage", "heal", "update", "add_status_effect", "use_ability",
            "die"}) =>
        \A id \in ActorIds :
            ~last.pre[id].is_alive =>
                /\ ~actors[id].is_alive
                /\ ~Positive(actors[id].stats["health"])

InBounds(stats, stat_name) ==
    /\ RLe(R(0), stats[stat_name])
    /\ RLe(stats[stat_name], stats[MaxName(stat_name)])

\* C6: after any modify_stat call health, stamina and mana lie between 0 and
\* their max_ counterpart, and every max_ stat is at least 1 in every state,
\* the initial one included.
C6_ModifyStatClamps ==
    /\ sbLast.op = "modify_stat" =>
          \A stat_name \in {"health", "stamina", "mana"} : InBounds(sb, stat_name)
    /\ \A stat_name \in {"max_health", "max_stamina", "max_mana"} :
          RLe(R(1), sb[stat_name])

\* C7: in every state reached through the actor operations, health, stamina
\* and mana of every actor lie between 0 and their max_ counterpart.
C7_ResourcesInBounds ==
    \A id \in ActorIds :
        \A stat_name \in {"health", "stamina", "mana"} :
            InBounds(actors[id].stats, stat_name)

\* C8: applying an effect and then removing it leaves every stat the effect
\* modifies equal to its value before the apply.
C8_ApplyRemoveRestores ==
    sbLast.op = "apply_remove" =>
        \A k \in 1..Len(EffectData[sbLast.name].stat_modifiers) :
            LET stat == EffectData[sbLast.name].stat_modifiers[k][1]
            IN  stat \in StatNames => sb[stat] = sbLast.pre[stat]

\* the resource and requirement checks of can_use_ability pass
Affordable(a, ability_id) ==
    /\ Abilities[ability_id].has_cost
    /\ RLe(Abilities[ability_id].cost.stamina, a.stats["stamina"])
    /\ RLe(Abilities[ability_id].cost.mana, a.stats["mana"])
    /\ check_ability_requirements(a, Abilities[ability_id])

\* C9: once use_ability has succeeded at time t0 for an ability with cooldown
\* c, and while the actor has the resources and meets the requirements,
\* can_use_ability is false at every time before t0 + c and true from t0 + c on.
C9_CooldownGating ==
    \A id \in ActorIds :
        \A ability_id \in DOMAIN actors[id].used_at :
            Affordable(actors[id], ability_id) =>
                (can_use_ability(actors[id], ability_id, now).ok
                    <=> now >= actors[id].used_at[ability_id]
                               + Abilities[ability_id].cooldown)

\* an ability with a cooldown was used, the cooldown has just run out and the
\* ability can be used again
C9_Witness ==
    \E id \in ActorIds :
        \E ability_id \in DOMAIN actors[id].used_at :
            /\ Abilities[ability_id].cooldown > 0
            /\ Affordable(actors[id], ability_id)
            /\ now = actors[id].used_at[ability_id] + Abilities[ability_id].cooldown
            /\ can_use_ability(actors[id], ability_id, now).ok

ValidationReasons == {"unknown", "cooldown", "stamina", "mana", "requirements"}

CostDeducted(id, ability_id) ==
    /\ actors[id].stats["stamina"] =
          RSub(last.pre[id].stats["stamina"], Abilities[ability_id].cost.stamina)
    /\ actors[id].stats["mana"] =
          RSub(last.pre[id].stats["mana"], Abilities[ability_id].cost.mana)

\* C11 as stated: when use_ability passes validation and the target is out of
\* the ability's range, the call fails and the cost has been deducted.
C11_RangeFailureKeepsCost ==
    (Called({"use_ability"}) /\ last.reason = "range") =>
        (~last.ok /\ CostDeducted(last.self, last.ability))

\* C11: when use_ability passes validation and the target is out of the
\* ability's range, the call fails with an empty effects list and nothing is
\* deducted: both actors are as they were before the call.
C11_RangeFailureChangesNothing ==
    (Called({"use_ability"}) /\ last.reason = "range") =>
        (~last.ok /\ last.effects = 0 /\ last.raised = None /\ actors = last.pre)

\* a use_ability of an ability with a cost failed on the range
C11_Witness ==
    /\ Called({"use_ability"})
    /\ last.reason = "range"
    /\ RLt(R(0), Abilities[last.ability].cost.stamina)
    /\ actors[last.self].stats["stamina"] = last.pre[last.self].stats["stamina"]

\* C12: when the primary target dodges the direct damage of an ability,
\* use_ability fails with the dodged message and an empty effects list, the
\* target loses no health, no status effect is attached to either actor, and
\* the cost deducted earlier in the call stays deducted.
C12_DodgeKeepsCostAndSkipsEffects ==
    (Called({"use_ability"}) /\ last.reason = "dodged") =>
        /\ ~last.ok /\ last.effects = 0 /\ last.raised = None
        /\ CostDeducted(last.self, last.ability)
        /\ actors[last.target].stats = last.pre[last.target].stats
        /\ \A id \in ActorIds :
              actors[id].status_effects = last.pre[id].status_effects

\* the target dodged an ability that costs stamina and carries a status effect
C12_Witness ==
    /\ Called({"use_ability"})
    /\ last.reason = "dodged"
    /\ Abilities[last.ability].effects # << >>
    /\ RLt(actors[last.self].stats["stamina"], last.pre[last.self].stats["stamina"])
    /\ actors[last.target].combat_stats.dodges
          = last.pre[last.target].combat_stats.dodges + 1

\* the damage formula of take_damage: resistance, the product of the active
\* effects' damage_taken_modifier, defense mitigation, floor at 0, one decimal
DamageFormula(base, resistance, taken_product, defense) ==
    Round1(RMax(R(0),
                RMul(RMul(RMul(base, RSub(R(1), resistance)), taken_product),
                     RSub(R(1), RDiv(defense, RAdd(defense, R(100)))))))

\* what take_damage is to return for the actor a, by its defense stat
ExpectedDamage(a, base, damage_type) ==
    DamageFormula(base, Resistance(a, damage_type),
                  ProductOfKey(a.status_effects, "damage_taken_modifier"),
                  a.stats["defense"])

\* C13: for a living actor and a hit that is not dodged, take_damage returns
\* round1(max(0, base * (1 - resistance) * product of (1 + damage_taken_modifier)
\* * (1 - defense / (defense + 100)))), sets health to max(0, health - actual)
\* and adds actual to damage_taken.
C13_TakeDamageFormula ==
    (Called({"take_damage"}) /\ last.pre[last.self].is_alive /\ ~last.dodged) =>
        /\ last.amount = ExpectedDamage(last.pre[last.self], last.arg, "physical")
        /\ actors[last.self].stats["health"] =
              RMax(R(0), RSub(last.pre[last.self].stats["health"], last.amount))
        /\ actors[last.self].combat_stats.damage_taken =
              RAdd(last.pre[last.self].combat_stats.damage_taken, last.amount)

\* C14 as stated: for a fixed base damage, _calculate_damage with the larger
\* of two defense values is strictly smaller.
C14_StrictlyDecreasingInDefense ==
    (calc.fn = "calculate_damage" /\ RLt(calc.d1, calc.d2)) =>
        RLt(calc.out2, calc.out1)

\* C14: for a fixed base damage, _calculate_damage with the larger of two
\* defense values is never larger than with the smaller one.
C14_NonIncreasingInDefense ==
    (calc.fn = "calculate_damage" /\ RLt(calc.d1, calc.d2)) =>
        RLe(calc.out2, calc.out1)

\* two different defense values give the same positive damage after rounding
C14_Witness ==
    /\ calc.fn = "calculate_damage"
    /\ RLt(calc.d1, calc.d2)
    /\ RLt(R(0), calc.base)
    /\ calc.out1 = calc.out2

\* C15: whatever effects are active, the dodge chance and the critical chance
\* are at most 0.75, both in current_stats and as the roll functions use them
\* (a draw of 0.75 or more is never a dodge and never a critical hit).
C15_ChancesCapped ==
    \A id \in ActorIds :
        /\ RLe(current_stats(actors[id])["dodge_chance"], Q(3, 4))
        /\ RLe(current_stats(actors[id])["critical_chance"], Q(3, 4))
        /\ ~try_dodge(actors[id], Q(3, 4))
        /\ ~is_critical_hit(actors[id], Q(3, 4))

\* the active effects of a named like name
Named(a, name) == {i \in 1..Len(a.status_effects) : a.status_effects[i].name = name}

\* C16: Poison ({health: -5}, duration 3, tick_interval 1) attached at t = 0 to
\* a living actor updated at t = 1, 2, 3 ticks at t = 1 and t = 2 for 5 damage
\* each, so health is 5 and then 10 below its starting value with the effect
\* still active, and the update at t = 3 removes the effect, its modifiers
\* reverted once, with a total of 10 damage dealt.
C16_PoisonScenario ==
    LET hero == actors["hero"]
    IN  calc.fn = "poison" =>
          /\ calc.stage \in {2, 3} =>
                /\ hero.stats["health"] = RSub(calc.health, R(5 * (calc.stage - 1)))
                /\ Named(hero, "Poison") # {}
          /\ calc.stage = 4 =>
                /\ hero.stats["health"] = RSub(calc.health, R(10))
                /\ Named(hero, "Poison") = {}
                /\ \A uid \in DOMAIN hero.applied : Count(hero.reverted, uid) = 1

\* C17: an update call runs status-effect ticking, resource regeneration, the
\* death check and the cooldown cleanup, in that order and to the end (it
\* does not raise), and an actor whose health a tick of this call brought to 0
\* is dead, with deaths incremented, when the cooldown cleanup is reached.
C17_UpdateOrder ==
    Called({"update"}) =>
        /\ last.raised = None
        /\ (/\ last.pre[last.self].is_alive
            /\ RLe(actors[last.self].stats["health"], R(0)))
           => /\ ~actors[last.self].is_alive
              /\ actors[last.self].combat_stats.deaths
                    = last.pre[last.self].combat_stats.deaths + 1

\* C18: die() on a dead actor changes nothing (deaths, health, stats, the
\* status-effect list and the record of reverted effects stay as they were);
\* die() on a living actor increments deaths by one and reverts each
\* non-permanent effect of the list exactly once, and no permanent one.
C18_DieTwiceIsNoOp ==
    Called({"die"}) =>
        LET before == last.pre[last.self]
            after == actors[last.self]
        IN  /\ ~before.is_alive => actors = last.pre
            /\ before.is_alive =>
                  /\ ~after.is_alive
                  /\ after.combat_stats.deaths = before.combat_stats.deaths + 1
                  /\ \A i \in 1..Len(before.status_effects) :
                        LET e == before.status_effects[i]
                        IN  Count(after.reverted, e.uid)
                              = Count(before.reverted, e.uid)
                                  + (IF e.is_permanent THEN 0 ELSE 1)

\* a die() call on an actor that an earlier death had stripped of an effect
C18_Witness ==
    /\ Called({"die"})
    /\ ~last.pre[last.self].is_alive
    /\ last.pre[last.self].combat_stats.deaths = 1
    /\ \E uid \in DOMAIN actors[last.self].reverted :
          Count(actors[last.self].reverted, uid) = 1

\* the factor the active effects put on healing received
HealingModifier(a) == ProductOfKey(a.status_effects, "healing_received_modifier")

\* C19: heal(amount) on a living actor sets health to
\* min(max_health, health + amount * product of (1 + healing_received_modifier)),
\* returns the new health minus the old one and adds the returned value to
\* healing_done, changing nothing else; on a dead actor it returns 0 and
\* changes nothing.
C19_HealFormula ==
    Called({"heal"}) =>
        LET before == last.pre[last.self]
            after == actors[last.self]
            expected == RMin(before.stats["max_health"],
                             RAdd(before.stats["health"],
                                  RMul(last.arg, HealingModifier(before))))
            returned == RSub(expected, before.stats["health"])
        IN  IF before.is_alive
            THEN /\ last.amount = returned
                 /\ actors = [last.pre EXCEPT ![last.self] =
                        [before EXCEPT !.stats["health"] = expected,
                                       !.combat_stats.healing_done = RAdd(@, returned)]]
            ELSE last.amount = R(0) /\ actors = last.pre

\* a heal of a wounded, bleeding actor that restores less than the amount asked
C19_Witness ==
    /\ Called({"heal"})
    /\ last.pre[last.self].is_alive
    /\ HealingModifier(last.pre[last.self]) # R(1)
    /\ RLt(R(0), last.amount)
    /\ RLt(last.amount, last.arg)
    /\ RLt(actors[last.self].stats["health"], actors[last.self].stats["max_health"])

\* C20: resurrect(f) on a living actor changes nothing; on a dead actor it
\* sets is_alive, health = max_health * f, stamina = 0.5 * max_stamina and
\* mana = 0.5 * max_mana and leaves everything else as it was: the deaths
\* counter, the status-effect list and the cooldown map among it.
C20_ResurrectFrame ==
    Called({"resurrect"}) =>
        LET before == last.pre[last.self]
        IN  IF before.is_alive
            THEN actors = last.pre
            ELSE actors = [last.pre EXCEPT ![last.self] =
                    [before EXCEPT
                       !.is_alive = TRUE,
                       !.stats["health"] = RMul(before.stats["max_health"], last.amount),
                       !.stats["stamina"] = RMul(before.stats["max_stamina"], Q(1, 2)),
                       !.stats["mana"] = RMul(before.stats["max_mana"], Q(1, 2))]]

\* a resurrection of an actor that died with a permanent effect on it
C20_Witness ==
    /\ Called({"resurrect"})
    /\ ~last.pre[last.self].is_alive
    /\ actors[last.self].is_alive
    /\ actors[last.self].combat_stats.deaths = 1
    /\ \E i \in 1..Len(actors[last.self].status_effects) :
          actors[last.self].status_effects[i].is_permanent
    /\ actors[last.self].stats["health"] = R(50)

\* C21: after add_status_effect is called with a non-stacking effect named
\* like an effect of the active list, the list holds exactly one effect of
\* that name, the sum of that effect's modifiers is the larger of the old and
\* the new sum, and the stats carry the modifiers of that one effect only:
\* for an actor that had nothing but the old effect attached since its
\* construction, they are the construction stats with the surviving effect
\* applied once.
C21_NonStackingDuplicate ==
    (/\ Called({"add_status_effect"})
     /\ ~EffectData[last.ability].can_stack
     /\ Named(last.pre[last.self], EffectData[last.ability].name) # {})
    => LET before == last.pre[last.self]
           after == actors[last.self]
           new == EffectData[last.ability]
           old == before.status_effects[FirstNamed(before.status_effects, new.name)]
           kept == Named(after, new.name)
       IN  /\ Cardinality(kept) = 1
           /\ \A i \in kept :
                 /\ SumValues(after.status_effects[i].stat_modifiers)
                      = RMax(SumValues(old.stat_modifiers),
                             SumValues(new.stat_modifiers))
                 /\ (/\ last.self = "hero"
                     /\ before.status_effects = <<old>>
                     /\ before.stats = EffectApply(old.stat_modifiers, HeroStats))
                    => after.stats
                         = EffectApply(after.status_effects[i].stat_modifiers,
                                       HeroStats)

\* C29: use_ability with an ability that _load_abilities has loaded, one
\* without a cost entry among them, returns a (success, message) result and
\* raises no exception.
C29_LoadedAbilityNeverRaises ==
    (Called({"use_ability"}) /\ last.ability \in AbilityIds) => last.raised = None

\* C30: a deal_damage call between two living actors adds the damage that
\* the target's take_damage returned to the attacker's damage_dealt and adds
\* 1 to the attacker's critical_hits when the hit was critical and 0 when it
\* was not; with either side dead the attacker's statistics do not change.
C30_DealDamageStatistics ==
    Called({"deal_damage"}) =>
        LET before == last.pre[last.self].combat_stats
            after == actors[last.self].combat_stats
        IN  IF last.pre[last.self].is_alive /\ last.pre[last.target].is_alive
            THEN /\ after.damage_dealt = RAdd(before.damage_dealt, last.amount)
                 /\ after.critical_hits
                      = before.critical_hits + (IF last.crit THEN 1 ELSE 0)
            ELSE after = before

\* the call just made is one of ops on the session, the engine or the manager
CombatCalled(ops) == cLast.op \in ops /\ cLast.step = steps

\* C22: every handle_player_action and every update made on a session that
\* is finished (a participant is dead or end_time is set) leaves the stats of
\* both participants as they were.
C22_FinishedSessionIsFrozen ==
    (/\ CombatCalled({"handle_player_action", "update"})
     /\ is_finished(cLast.pre, cLast.before.session))
    => \A id \in ActorIds : actors[id].stats = cLast.pre[id].stats

\* the invariant of an actor's health: within 0..max_health, and positive
\* exactly when the actor is alive
HealthInvariant(a) ==
    /\ RLe(R(0), a.stats["health"])
    /\ RLe(a.stats["health"], a.stats["max_health"])
    /\ a.is_alive <=> RLt(R(0), a.stats["health"])

\* C23: a call on the session changes a participant's stats only through the
\* actor's own operations, so that participants that satisfied
\* 0 <= health <= max_health and is_alive = (health > 0) before a
\* handle_player_action, update or end still satisfy it afterwards.
C23_SessionKeepsHealthInvariant ==
    (/\ CombatCalled({"handle_player_action", "update", "end"})
     /\ \A id \in ActorIds : HealthInvariant(cLast.pre[id]))
    => \A id \in ActorIds : HealthInvariant(actors[id])

C25_EndIsFinal ==
    /\ CombatCalled({"end"}) =>
          /\ ~actors[combat.session.player].in_combat
          /\ ~actors[combat.session.enemy].in_combat
    /\ combat.ended =>
          /\ combat.session.end_time # << >>
          /\ is_finished(actors, combat.session)

\* an attack made on an ended session whose participants are both alive
C25_Witness ==
    /\ CombatCalled({"handle_player_action"})
    /\ cLast.action = "attack"
    /\ cLast.before.ended
    /\ \A id \in ActorIds : actors[id].is_alive

\* the damage of a basic attack without the combo bonus:
\* max(1, strength (doubled on a critical hit) - enemy defense)
PlainDamage(A, c, is_crit) ==
    RMax(R(1), RSub(IF is_crit THEN RMul(A[c.player].stats["strength"], R(2))
                    ELSE A[c.player].stats["strength"],
                    RAdd(A[c.enemy].stats["defense"], c.enemy_status.defense_bonus)))

\* C26: a basic attack is carried out to its end, raises the combo counter by
\* one, and removes from the enemy's health the plain damage of the attack,
\* or 1.2 times that damage when the attack is made with the counter at 3 or
\* more.
C26_ComboBonus ==
    (CombatCalled({"handle_player_action"}) /\ cLast.action = "attack") =>
        LET c == cLast.before.session
            plain == PlainDamage(cLast.pre, c, cLast.crit)
        IN  /\ cLast.raised = None
            /\ cLast.ok
            /\ combat.session.player_status.combo_counter
                  = c.player_status.combo_counter + 1
            /\ RSub(cLast.pre[c.enemy].stats["health"], actors[c.enemy].stats["health"])
                  = IF c.player_status.combo_counter >= 3
                    THEN RMul(plain, Q(6, 5)) ELSE plain

\* C27: defend sets the player's in-combat defense bonus to 5 + skill level
\* (5 for a player without get_skill_level), raises the in-combat stamina by
\* 20 up to at most 100 and changes neither participant; every other call on
\* the session, attacks among them, leaves the bonus as it is.
C27_DefendFrame ==
    CombatCalled({"handle_player_action", "update", "end", "_initialize_combat"}) =>
        LET old == cLast.before.session.player_status
            new == combat.session.player_status
        IN  IF cLast.op = "handle_player_action" /\ cLast.action = "defend"
            THEN /\ new.defense_bonus
                      = 5 + (IF combat.skill = << >> THEN 0 ELSE combat.skill[1])
                 /\ new.stamina = (IF old.stamina + 20 > 100 THEN 100 ELSE old.stamina + 20)
                 /\ cLast.ok /\ cLast.raised = None
                 /\ actors = cLast.pre
            ELSE new.defense_bonus = old.defense_bonus

\* an attack made by a skilled player who has defended: the bonus is still 7
C27_Witness ==
    /\ CombatCalled({"handle_player_action"})
    /\ cLast.action = "attack"
    /\ combat.skill = <<2>>
    /\ cLast.before.session.player_status.defense_bonus = 7
    /\ combat.session.player_status.defense_bonus = 7
    /\ actors["rat"].stats["health"] # cLast.pre["rat"].stats["health"]

\* C28: an escape attempt ends without an exception and succeeds exactly
\* when the draw r satisfies r < 0.3 + 0.1 * player.level; after a failed
\* attempt the enemy takes its turn; and at the level of the player who
\* makes the attempt some draw makes it fail.
C28_EscapeNotGuaranteed ==
    (CombatCalled({"handle_player_turn"}) /\ cLast.action = "3")
    => /\ cLast.raised = None
       /\ cLast.result = "escaped"
            <=> RLt(cLast.draw, escape_chance(actors["hero"].level))
       /\ cLast.result # "escaped" => cLast.enemy_turn
       /\ \E r \in DrawInputs : ~RLt(r, escape_chance(actors["hero"].level))


\* the enemy has no health left
EnemyDown == \E health \in {actors["rat"].stats["health"]} : RLe(health, R(0))

\* is_finished() is true and get_winner() returns the player
PlayerWon ==
    /\ is_finished(actors, combat.session)
    /\ get_winner(actors, combat.session) = "hero"

RegenStep(rate, value, maximum) == RMin(R(rate), RSub(maximum, value))

\* every update of a living actor has raised stamina by min(5, max_stamina -
\* stamina) and mana by min(2, max_mana - mana), and neither is above its
\* maximum
RegeneratedByRate ==
    (Called({"update"}) /\ last.pre[last.self].is_alive)
    => \E before \in {last.pre[last.self].stats}, after \in {actors[last.self].stats} :
          /\ after["stamina"] = RAdd(before["stamina"],
                                     RegenStep(5, before["stamina"], before["max_stamina"]))
          /\ after["mana"] = RAdd(before["mana"],
                                  RegenStep(2, before["mana"], before["max_mana"]))
          /\ RLe(after["stamina"], after["max_stamina"])
          /\ RLe(after["mana"], after["max_mana"])

\* stamina and mana of every actor equal their maxima
AtMaxima ==
    \A id \in ActorIds :
        \E stats \in {actors[id].stats} :
            /\ stats["stamina"] = stats["max_stamina"]
            /\ stats["mana"] = stats["max_mana"]

\* C33: for a living actor with regeneration multipliers 1 that spends
\* nothing, each update raises stamina by min(5, max_stamina - stamina) and
\* mana by min(2, max_mana - mana); under repeated updates both reach their
\* maxima and stay there, and never exceed them
C33_RegenerationReachesMaxima == []RegeneratedByRate /\ <>[]AtMaxima

\* an update of a living actor whose stamina was below its maximum has been
\* made, and every resource now stands at its maximum
C33_Witness ==
    /\ Called({"update"})
    /\ last.pre[last.self].is_alive
    /\ RLt(last.pre[last.self].stats["stamina"], last.pre[last.self].stats["max_stamina"])
    /\ AtMaxima

\* the last call has started the cooldown of its ability: the expiry in the
\* cooldown map is new and lies after the time the map held before
CooldownStarted(id, ability_id) ==
    /\ ability_id \in DOMAIN actors[id].cooldowns
    /\ \/ ability_id \notin DOMAIN last.pre[id].cooldowns
       \/ last.pre[id].cooldowns[ability_id] < actors[id].cooldowns[ability_id]

\* C34: a use_ability call that has deducted stamina or mana, whether it
\* returned success or failure, has also started the cooldown of the ability
C34_CostAndCooldownTogether ==
    (/\ Called({"use_ability"})
     /\ last.ability \in AbilityIds
     /\ \/ RLt(actors[last.self].stats["stamina"], last.pre[last.self].stats["stamina"])
        \/ RLt(actors[last.self].stats["mana"], last.pre[last.self].stats["mana"]))
    => CooldownStarted(last.self, last.ability)

\* C35: after add_status_effect is called with a non-stacking effect named
\* like an active effect, every active effect of that name has a remaining
\* duration of at least what the active effect of that name had before the
\* call.
C35_ReattachKeepsDuration ==
    (/\ Called({"add_status_effect"})
     /\ ~EffectData[last.ability].can_stack
     /\ Named(last.pre[last.self], EffectData[last.ability].name) # {})
    => LET before == last.pre[last.self]
           after == actors[last.self]
           name == EffectData[last.ability].name
           old == before.status_effects[FirstNamed(before.status_effects, name)]
       IN  /\ Named(after, name) # {}
           /\ \A i \in Named(after, name) :
                 after.status_effects[i].duration >= old.duration

\* the turns between the last successful use of the ability of the last call
\* and that call: << >> when the ability had not been used before
TurnsSinceUse ==
    IF cLast.action \in DOMAIN cLast.before.used
    THEN <<cLast.before.manager.turn - cLast.before.used[cLast.action]>>
    ELSE << >>

\* the player_stamina before the last call covers the cost of its ability
StaminaCovers ==
    cLast.before.manager.player_stamina
        >= ManagerAbilities[cLast.action].stamina_cost

\* C36 as stated, for a player who calls use_ability once in a turn at most:
\* on each of the c - 1 turns after a successful use of an ability with
\* cooldown c, use_ability of it is rejected with the cooldown message, and
\* on the c-th turn after it, it is accepted when the stamina covers the cost.
C36_CooldownMessageInTurns ==
    (CombatCalled({"use_ability"}) /\ combat.single /\ TurnsSinceUse # << >>)
    => LET c == ManagerAbilities[cLast.action].cooldown
       IN  /\ TurnsSinceUse[1] \in 1..(c - 1)
              => (~cLast.ok /\ cLast.message = "cooldown")
           /\ (TurnsSinceUse[1] = c /\ StaminaCovers) => cLast.ok

\* C36, for a player who calls use_ability once in a turn at most: on each
\* of the c - 1 turns after a successful use of an ability with cooldown c,
\* use_ability of it is rejected, with the cooldown message when the stamina
\* covers the cost and with the stamina message when it does not; on the
\* c-th turn after it, it is accepted when the stamina covers the cost.
C36_RejectedInTurns ==
    (CombatCalled({"use_ability"}) /\ combat.single /\ TurnsSinceUse # << >>)
    => LET c == ManagerAbilities[cLast.action].cooldown
       IN  /\ TurnsSinceUse[1] \in 1..(c - 1)
              => /\ ~cLast.ok
                 /\ cLast.message = IF StaminaCovers THEN "cooldown" ELSE "stamina"
           /\ (TurnsSinceUse[1] = c /\ StaminaCovers) => cLast.ok

\* an ability is used again on the c-th turn after its last use; its entry
\* had been deleted from the cooldown table by then
C36_Witness ==
    /\ CombatCalled({"use_ability"})
    /\ combat.single
    /\ cLast.ok
    /\ TurnsSinceUse = <<ManagerAbilities[cLast.action].cooldown>>
    /\ cLast.before.manager.abilities_cooldowns = EmptyDict

\* C37: player_stamina stays within 0..100 over every sequence of
\* use_ability and update_combat_state calls, and a use_ability that is
\* rejected leaves player_stamina and the cooldown table as they were.
C37_StaminaBoundsAndRejection ==
    /\ combat.manager.player_stamina \in 0..100
    /\ (CombatCalled({"use_ability"}) /\ ~cLast.ok)
       => /\ combat.manager.player_stamina = cLast.before.manager.player_stamina
          /\ combat.manager.abilities_cooldowns
                = cLast.before.manager.abilities_cooldowns

\* a use_ability was rejected for the cooldown while the stamina was below
\* 100 and the table held an entry
C37_Witness ==
    /\ CombatCalled({"use_ability"})
    /\ ~cLast.ok
    /\ cLast.message = "cooldown"
    /\ combat.manager.player_stamina < 100
    /\ combat.manager.abilities_cooldowns # EmptyDict

\* C38: a player turn whose action is rejected, here the item menu, returns
\* False without an exception and does not consume the turn: start_combat
\* does not go on to the enemy's turn; and the enemy never takes a turn with
\* health 0 or below.
C38_RejectedActionKeepsTurn ==
    CombatCalled({"handle_player_turn"})
    => /\ cLast.action = "2"
          => (cLast.raised = None /\ cLast.result = "False" /\ ~cLast.enemy_turn)
       /\ cLast.enemy_turn => RLt(R(0), actors["rat"].stats["health"])

\* an active quest on its last stage whose stage the event of the last call
\* matched: the call fulfilled the last stage of the quest
FulfilledLast(id) ==
    LET before == quest_manager.last.before
        stages == QuestData[id].stages
    IN  /\ quest_manager.last.op = "update_quest_progress"
        /\ before.quests[id].active
        /\ Occurrences(before.active_quests, id) > 0
        /\ before.quests[id].current_stage = Len(stages) - 1
        /\ StageMatches(stages[Len(stages)], quest_manager.last.event_type,
                        quest_manager.last.target, quest_manager.last.count)

\* C39: after update_quest_progress has fulfilled the last stage of an active
\* quest the quest is completed and no longer active, it has left
\* active_quests, completed_quests holds it once more than before and its
\* rewards have been granted once more than before; and in every state a quest
\* is in active_quests exactly when its active flag is set.
C39_LastStageCompletesQuest ==
    LET m == quest_manager.manager
    IN  /\ \A id \in QuestIds :
              (Occurrences(m.active_quests, id) > 0) <=> m.quests[id].active
        /\ \A id \in QuestIds :
              FulfilledLast(id)
              => LET before == quest_manager.last.before
                 IN  /\ m.quests[id].completed
                     /\ ~m.quests[id].active
                     /\ Occurrences(m.active_quests, id) = 0
                     /\ Occurrences(m.completed_quests, id)
                           = Occurrences(before.completed_quests, id) + 1
                     /\ m.granted[id] = before.granted[id] + 1
                     /\ m.player.gold
                           >= before.player.gold + QuestData[id].rewards.gold

====
